---- MODULE Spec2Model ----
(***************************************************************************)
(* Debt amortization and payoff-strategy projection engine                 *)
(* (utils/calculations.ts): calculateCurrentBalance,                       *)
(* calculateDebtProjection, calculateTotalDebtProjection,                  *)
(* calculateSnowballProjection and calculateCompleteDebtTimeline; and the  *)
(* persistence around it (utils/storage.ts, utils/firebaseStorage.ts and   *)
(* the sign-in effect of App.tsx): local storage, the signed-in user's     *)
(* Firestore collections and the asynchronous calls that write them.       *)
(*                                                                         *)
(* Numbers.  The code computes in IEEE doubles.  Here money is an integer  *)
(* number of grid steps, Tol steps making 0.01 currency units, and a       *)
(* product balance * monthlyRate is rounded down to the grid.  Interest    *)
(* rates are integers in tenths of a percent per year, so the sentinel     *)
(* 1.2% is 12 and monthlyRate = rate / 10 / 100 / 12.                      *)
(*                                                                         *)
(* Dates are calendar days [y, m, d] (m = 1..12); the time of day is not   *)
(* modelled.                                                               *)
(***************************************************************************)
EXTENDS Integers, Sequences, FiniteSets, TLC

VARIABLES
    debts,                \* the Debt[] argument of the running call
    today,                \* what new Date() returns during the call
    paymentStrategy,      \* strategy argument ("none" is null / absent)
    totalMonthlyBudget,   \* budget argument (Undefined when absent)
    interestThreshold,    \* threshold argument, tenths of a percent
    call,                 \* the function that is running
    pc,                   \* "start", "loop" or "done"
    frame,                \* the locals of the running function
    projections,          \* the DebtProjection[] built so far
    monthLog,             \* what the last simulated month did, debt by debt
    localStorage,         \* the AppState kept under STORAGE_KEY, as JSON
    firestore,            \* the signed-in user's collections, documents by id
    currentUser,          \* auth.currentUser is set
    tasks,                \* the asynchronous calls started so far
    thread                \* the task that is running (0: the event loop is idle)

\* the state of utils/calculations.ts
core == <<debts, today, paymentStrategy, totalMonthlyBudget, interestThreshold,
          call, pc, frame, projections, monthLog>>

\* the state of utils/storage.ts, utils/firebaseStorage.ts and App.tsx
stores == <<localStorage, firestore, currentUser, tasks, thread>>

vars == <<debts, today, paymentStrategy, totalMonthlyBudget, interestThreshold,
          call, pc, frame, projections, monthLog,
          localStorage, firestore, currentUser, tasks, thread>>

inputs == <<debts, today, paymentStrategy, totalMonthlyBudget, interestThreshold, call>>

----------------------------------------------------------------------------
(* Numbers *)

\* 0.01 currency units, in grid steps (the grid step is 0.01 / Tol).
Tol == 2

\* the while loops' cap { // Cap at 50 years }
MaxMonths == 600

\* interestRate === 1.2, in tenths of a percent
ZeroInterestSentinel == 12

\* an optional number that is absent (monthlyPayment?, totalMonthlyBudget?);
\* no input takes this value as a number
Undefined == 0 - 1

\* JavaScript truthiness of an optional number: undefined and 0 are falsy
Truthy(x) == x # Undefined /\ x # 0

\* (x || 0)
OrZero(x) == IF Truthy(x) THEN x ELSE 0

\* const b = v; ... b ... b ...
With(v, Op(_)) == Op(v)

\* the locals of a call that returned before its loop
NoFrame == [entered |-> FALSE]

\* what loadFromStorage returns when nothing is stored, lines 35-39
EmptyState == [debts |-> <<>>, incomeSources |-> <<>>, recurringExpenses |-> <<>>]

\* a user's collections before anything is written to them
EmptyCollections == [debts |-> {}, incomes |-> {}, expenses |-> {}]

\* nothing stored, nobody signed in, no call started
NoStorage ==
    /\ localStorage = EmptyState
    /\ firestore = EmptyCollections
    /\ currentUser = FALSE
    /\ tasks = <<>>
    /\ thread = 0

\* the log of a call that has simulated no month yet
NoLog == [mode |-> "none", month |-> 0, totalMonthlyPayment |-> 0,
          minimumPayments |-> 0, activePayments |-> 0, monthlyPaymentLeft |-> 0,
          steps |-> <<>>]

Min(a, b) == IF a <= b THEN a ELSE b

Max(a, b) == IF a >= b THEN a ELSE b

\* a rate taken as stored, 1.2 included
RateAsStored(rate) == rate

\* debt.interestRate === 1.2 ? 0 : debt.interestRate
AdjustedInterestRate(rate) == IF rate = ZeroInterestSentinel THEN 0 ELSE rate

\* balance * (rate / 100 / 12), rate in tenths of a percent, rounded down
InterestPayment(balance, rate) == (balance * rate) \div (10 * 100 * 12)

\* Math.min(payment - interestPayment, balance)
PrincipalPayment(payment, interestPayment, balance) ==
    Min(payment - interestPayment, balance)

----------------------------------------------------------------------------
(* Dates *)

MkDate(y, m, d) == [y |-> y, m |-> m, d |-> d]

IsLeap(y) == (y % 4 = 0 /\ y % 100 # 0) \/ y % 400 = 0

DaysInMonth(y, m) ==
    IF m = 2 THEN (IF IsLeap(y) THEN 29 ELSE 28)
    ELSE IF m \in {4, 6, 9, 11} THEN 30 ELSE 31

\* date-fns addMonths: the day of month is kept, clamped to the target month
addMonths(date, n) ==
    With(date.y * 12 + (date.m - 1) + n, LAMBDA idx :
        MkDate(idx \div 12, (idx % 12) + 1,
               Min(date.d, DaysInMonth(idx \div 12, (idx % 12) + 1))))

\* a < b on Date objects
DateBefore(a, b) ==
    \/ a.y < b.y
    \/ a.y = b.y /\ a.m < b.m
    \/ a.y = b.y /\ a.m = b.m /\ a.d < b.d

\* a >= b on Date objects
DateAtOrAfter(a, b) == ~DateBefore(a, b)

----------------------------------------------------------------------------
(* calculateCurrentBalance *)

\* a month count that forgets the years
MonthsWithinYear(startDate, now) ==
    Max(0, (now.m - startDate.m) + (IF now.d >= startDate.d THEN 0 ELSE 0 - 1))

\* Math.max(0, year difference * 12 + month difference + (day >= day ? 0 : -1))
MonthsElapsed(startDate, now) ==
    Max(0, (now.y - startDate.y) * 12 + (now.m - startDate.m)
           + (IF now.d >= startDate.d THEN 0 ELSE 0 - 1))

\* a reconstruction that goes on when the payment does not cover the interest
BalanceNeverStuck(principalPayment) == FALSE

\* if (principalPayment <= 0) break; // Payment too low to cover interest
BalanceStuck(principalPayment) == principalPayment <= 0

\* the body of the for loop once the two payments are known
BalancePay(debt, st, interestPayment, principalPayment) ==
    [remainingBalance  |-> st.remainingBalance - principalPayment,
     totalPaid         |-> st.totalPaid + debt.monthlyPayment,
     totalInterestPaid |-> st.totalInterestPaid + interestPayment]

\* the for loop: i < monthsElapsed && remainingBalance > 0.01, left by break
\* when the payment does not cover the interest
RECURSIVE BalanceLoop(_, _, _, _, _)
BalanceLoop(debt, monthlyRate, monthsElapsed, i, st) ==
    IF ~(i < monthsElapsed /\ st.remainingBalance > Tol) THEN st
    ELSE With(InterestPayment(st.remainingBalance, monthlyRate), LAMBDA interestPayment :
         With(PrincipalPayment(debt.monthlyPayment, interestPayment, st.remainingBalance),
              LAMBDA principalPayment :
                IF BalanceStuck(principalPayment) THEN st
                ELSE BalanceLoop(debt, monthlyRate, monthsElapsed, i + 1,
                        BalancePay(debt, st, interestPayment, principalPayment))))

\* the result once the loop has ended
BalanceResult(st, monthsElapsed) ==
    [currentBalance |-> Max(0, st.remainingBalance),
     totalPaid      |-> st.totalPaid,
     interestPaid   |-> st.totalInterestPaid,
     monthsElapsed  |-> monthsElapsed]

calculateCurrentBalance(debt, now) ==
    With(MonthsElapsed(debt.dateStarted, now), LAMBDA monthsElapsed :
        IF ~Truthy(debt.monthlyPayment) \/ monthsElapsed <= 0
        THEN [currentBalance |-> debt.totalAmount, totalPaid |-> 0,
              interestPaid |-> 0, monthsElapsed |-> 0]
        ELSE BalanceResult(
                BalanceLoop(debt, AdjustedInterestRate(debt.interestRate), monthsElapsed, 0,
                            [remainingBalance |-> debt.totalAmount, totalPaid |-> 0,
                             totalInterestPaid |-> 0]),
                monthsElapsed))

----------------------------------------------------------------------------
(* calculateDebtProjection *)

\* a starting balance that ignores the manual currentAmount
ReconstructedOnly(debt, currentBalance) == currentBalance

\* debt.currentAmount !== debt.totalAmount ? debt.currentAmount : currentBalance
ActualCurrentBalance(debt, currentBalance) ==
    IF debt.currentAmount # debt.totalAmount THEN debt.currentAmount ELSE currentBalance

\* lines 151-161: the locals before the while loop
ProjectionFrame(debt, now) ==
    With(calculateCurrentBalance(debt, now), LAMBDA info :
        [debt              |-> debt,
         balanceInfo       |-> info,
         actualCurrentBalance |-> ActualCurrentBalance(debt, info.currentBalance),
         remainingBalance  |-> ActualCurrentBalance(debt, info.currentBalance),
         totalPaid         |-> 0,
         totalInterestPaid |-> 0,
         currentDate       |-> now,
         monthCount        |-> 0])

\* while (remainingBalance > 0.01 && monthCount < 600)
ProjectionLoopCond(f) == f.remainingBalance > Tol /\ f.monthCount < MaxMonths

\* a projection that goes on when the payment does not cover the interest
ProjectionNeverStuck(principalPayment) == FALSE

\* if (principalPayment <= 0) break; the debt will never be paid off
ProjectionStuck(principalPayment) == principalPayment <= 0

\* lines 179-187: the point pushed for the frame g, then
\* if (remainingBalance < 0.01) break
ProjectionPush(g) ==
    [frame |-> g,
     push  |-> << [month         |-> g.monthCount,
                   date          |-> g.currentDate,
                   remainingDebt |-> Max(0, g.remainingBalance),
                   totalPaid     |-> g.totalPaid,
                   interestPaid  |-> g.totalInterestPaid] >>,
     break |-> g.remainingBalance < Tol]

\* lines 167-187 once the two payments are known
ProjectionPay(f, interestPayment, principalPayment) ==
    IF ProjectionStuck(principalPayment)
    THEN [frame |-> f, push |-> <<>>, break |-> TRUE]
    ELSE ProjectionPush([f EXCEPT !.remainingBalance  = @ - principalPayment,
                                  !.totalPaid         = @ + f.debt.monthlyPayment,
                                  !.totalInterestPaid = @ + interestPayment,
                                  !.currentDate       = addMonths(@, 1),
                                  !.monthCount        = @ + 1])

\* one pass through the loop body, lines 164-187:
\* [frame, pushed point or <<>>, whether the body ends with break]
ProjectionBody(f) ==
    With(InterestPayment(f.remainingBalance, AdjustedInterestRate(f.debt.interestRate)),
         LAMBDA interestPayment :
            ProjectionPay(f, interestPayment,
                          PrincipalPayment(f.debt.monthlyPayment, interestPayment,
                                           f.remainingBalance)))

\* the running call after lines 143-161
ProjectionEntered(f) ==
    [pc          |-> IF ProjectionLoopCond(f) THEN "loop" ELSE "done",
     frame       |-> f,
     projections |-> <<>>,
     log         |-> NoLog]

\* the call up to the while loop: if (!debt.monthlyPayment) return projections
ProjectionStart(debt, now) ==
    IF ~Truthy(debt.monthlyPayment)
    THEN [pc |-> "done", frame |-> NoFrame, projections |-> <<>>, log |-> NoLog]
    ELSE ProjectionEntered(ProjectionFrame(debt, now))

\* the running call m after the loop body returned b
ProjectionAfter(m, b) ==
    [pc          |-> IF b.break \/ ~ProjectionLoopCond(b.frame) THEN "done" ELSE "loop",
     frame       |-> b.frame,
     projections |-> m.projections \o b.push,
     log         |-> NoLog]

\* one pass through the while loop, and the test of its condition
ProjectionStep(m) == ProjectionAfter(m, ProjectionBody(m.frame))

\* at most n passes through the loop (halving keeps the evaluation shallow)
RECURSIVE ProjectionRun(_, _)
ProjectionRun(m, n) ==
    IF n = 0 \/ m.pc = "done" THEN m
    ELSE IF n = 1 THEN ProjectionStep(m)
    ELSE ProjectionRun(ProjectionRun(m, n \div 2), n - (n \div 2))

calculateDebtProjection(debt, now) ==
    ProjectionRun(ProjectionStart(debt, now), MaxMonths).projections

----------------------------------------------------------------------------
(* Array helpers *)

\* a filter that keeps every debt
IncludedAnyway(debt) == TRUE

\* debts.filter(debt => debt.includeInTotal !== false)
Included(debt) == debt.includeInTotal # "false"

\* Array.prototype.sort is stable: the position of keys[i] in ascending key
\* order, equal keys in their original order (comparator a.key - b.key)
Rank(keys, i) ==
    Cardinality({j \in DOMAIN keys : keys[j] < keys[i] \/ (keys[j] = keys[i] /\ j < i)}) + 1

\* list.sort((a, b) => keys(a) - keys(b)); keys[i] is the key of list[i]
SortByKeys(list, keys) ==
    [p \in 1..Len(list) |-> list[CHOOSE i \in DOMAIN keys : Rank(keys, i) = p]]

\* list.reduce((sum, debt) => sum + (debt.monthlyPayment || 0), 0)
RECURSIVE SumMonthlyPayments(_)
SumMonthlyPayments(list) ==
    IF list = <<>> THEN 0
    ELSE OrZero(Head(list).monthlyPayment) + SumMonthlyPayments(Tail(list))

\* a budget used whenever it is supplied
BudgetAsSupplied(budget, minimumPayments) ==
    IF Truthy(budget) THEN budget ELSE minimumPayments

\* a budget that is always the sum of the minimum payments
MinimumPaymentsOnly(budget, minimumPayments) == minimumPayments

\* totalMonthlyBudget && totalMonthlyBudget > minimumPayments
\*   ? totalMonthlyBudget : minimumPayments
TotalMonthlyPayment(budget, minimumPayments) ==
    IF Truthy(budget) /\ budget > minimumPayments THEN budget ELSE minimumPayments

\* a non-focused debt offered its payment whatever is left of the budget
UncappedPayment(index, monthlyPayment, monthlyPaymentLeft) ==
    IF index = 1 THEN monthlyPaymentLeft ELSE OrZero(monthlyPayment)

\* index === 0 ? monthlyPaymentLeft
\*             : Math.min(debt.monthlyPayment || 0, monthlyPaymentLeft)
\* (index counts from 1 here)
AvailablePayment(index, monthlyPayment, monthlyPaymentLeft) ==
    IF index = 1 THEN monthlyPaymentLeft
    ELSE Min(OrZero(monthlyPayment), monthlyPaymentLeft)

\* what the month's log keeps of one debt of the for loop
LogEntry(index, id, monthlyPayment, interestRate, balance, left, available, interest, principal) ==
    [id |-> id, focused |-> (index = 1),
     monthlyPayment   |-> monthlyPayment,
     interestRate     |-> interestRate,
     balanceBefore    |-> balance,
     leftBefore       |-> left,
     availablePayment |-> available,
     interestPayment  |-> interest,
     paid             |-> IF principal > 0 THEN principal + interest ELSE 0]

----------------------------------------------------------------------------
(* calculateSnowballProjection: fixed-cohort mode *)

\* debt.includeInTotal !== false && debt.monthlyPayment && debt.monthlyPayment > 0
IsSnowballIncluded(debt) ==
    Included(debt) /\ Truthy(debt.monthlyPayment) /\ debt.monthlyPayment > 0

\* { ...debt, currentBalance: calculateCurrentBalance(debt).currentBalance }
WithCurrentBalance(debt, now) ==
    [id             |-> debt.id,
     interestRate   |-> debt.interestRate,
     monthlyPayment |-> debt.monthlyPayment,
     currentBalance |-> calculateCurrentBalance(debt, now).currentBalance]

\* debt.currentBalance > 0.01
HasBalance(d) == d.currentBalance > Tol

\* includedDebts.map(...)
MapCurrentBalance(included, now) ==
    [i \in 1..Len(included) |-> WithCurrentBalance(included[i], now)]

\* lines 409-419: the qualifying debts that still owe something
DebtBalances(list, now) ==
    SelectSeq(MapCurrentBalance(SelectSeq(list, IsSnowballIncluded), now), HasBalance)

\* debtBalances.sort((a, b) => a.currentBalance - b.currentBalance)
SortByBalance(list) ==
    SortByKeys(list, [i \in 1..Len(list) |-> list[i].currentBalance])

\* list.sort((a, b) => b.interestRate - a.interestRate)
SortByRate(list) ==
    SortByKeys(list, [i \in 1..Len(list) |-> 0 - list[i].interestRate])

\* list.sort((a, b) => (b.monthlyPayment || 0) - (a.monthlyPayment || 0))
SortByPayment(list) ==
    SortByKeys(list, [i \in 1..Len(list) |-> 0 - OrZero(list[i].monthlyPayment)])

\* debtBalances.filter(d => d.interestRate >= interestThreshold)
HighInterest(list, threshold) ==
    SelectSeq(list, LAMBDA d : d.interestRate >= threshold)

\* debtBalances.filter(d => d.interestRate < interestThreshold)
LowInterest(list, threshold) ==
    SelectSeq(list, LAMBDA d : d.interestRate < threshold)

\* lines 423-452: switch (strategy), executed once, before the loop
SnowballSort(list, strategy, threshold) ==
    CASE strategy = "snowball"  -> SortByBalance(list)
      [] strategy = "avalanche" -> SortByRate(list)
      [] strategy = "cashflow"  -> SortByPayment(list)
      [] strategy = "smart"     -> SortByRate(HighInterest(list, threshold))
                                   \o SortByBalance(LowInterest(list, threshold))
      [] OTHER -> list

\* const monthlyRate = debt.interestRate / 100 / 12 (line 474)
SnowballMonthlyRate(debt) == debt.interestRate

\* lines 454-463: the locals before the while loop
SnowballLocals(debtBalances, minimumPayments, budget) ==
    [minimumPayments        |-> minimumPayments,
     totalMonthlyPayment    |-> TotalMonthlyPayment(budget, minimumPayments),
     month                  |-> 1,
     remainingDebts         |-> debtBalances,
     totalPaidSoFar         |-> 0,
     totalInterestPaidSoFar |-> 0]

\* lines 423-463 for the debts that passed the two filters
SnowballFrame(debtBalances, budget, strategy, threshold) ==
    With(SnowballSort(debtBalances, strategy, threshold), LAMBDA sorted :
        SnowballLocals(sorted, SumMonthlyPayments(sorted), budget))

\* a loop condition that looks at the month cap only
SnowballLoopsOn(f) == f.month <= MaxMonths

\* while (remainingDebts.length > 0 && month <= 600)
SnowballLoopCond(f) == Len(f.remainingDebts) > 0 /\ f.month <= MaxMonths

\* debt.currentBalance after a payment: if (debt.currentBalance <= 0.01) it is 0
SnowballSettle(balance) == IF balance <= Tol THEN 0 ELSE balance

\* lines 482-498 for remainingDebts[i], once the payments are known
SnowballApply(i, acc, debt, interestPayment, principalPayment, entry) ==
    IF principalPayment <= 0
    THEN [acc EXCEPT !.totalRemainingThisMonth = @ + debt.currentBalance,
                     !.steps = Append(@, entry)]
    ELSE [acc EXCEPT !.remainingDebts[i].currentBalance =
                            SnowballSettle(debt.currentBalance - principalPayment),
                     !.monthlyPaymentLeft = @ - (principalPayment + interestPayment),
                     !.totalPaidThisMonth = @ + (principalPayment + interestPayment),
                     !.totalInterestThisMonth = @ + interestPayment,
                     !.totalRemainingThisMonth =
                            @ + SnowballSettle(debt.currentBalance - principalPayment),
                     !.steps = Append(@, entry)]

\* lines 473-480 for remainingDebts[i]
SnowballPayOne(i, acc, debt) ==
    With(InterestPayment(debt.currentBalance, SnowballMonthlyRate(debt)),
         LAMBDA interestPayment :
    With(AvailablePayment(i, debt.monthlyPayment, acc.monthlyPaymentLeft),
         LAMBDA availablePayment :
    With(PrincipalPayment(availablePayment, interestPayment, debt.currentBalance),
         LAMBDA principalPayment :
            SnowballApply(i, acc, debt, interestPayment, principalPayment,
                LogEntry(i, debt.id, debt.monthlyPayment, debt.interestRate,
                         debt.currentBalance, acc.monthlyPaymentLeft, availablePayment,
                         interestPayment, principalPayment)))))

\* the for loop of one month, lines 472-499, from index i on; acc holds
\* remainingDebts, monthlyPaymentLeft, the month's totals and the log
RECURSIVE SnowballPay(_, _)
SnowballPay(i, acc) ==
    IF i > Len(acc.remainingDebts) THEN acc
    ELSE SnowballPay(i + 1, SnowballPayOne(i, acc, acc.remainingDebts[i]))

\* a month's point that carries the payments of that month alone
SnowballCloseMonthOnly(f, now, acc) ==
    [frame |-> [f EXCEPT !.remainingDebts = SelectSeq(acc.remainingDebts, HasBalance),
                         !.totalPaidSoFar = @ + acc.totalPaidThisMonth,
                         !.totalInterestPaidSoFar = @ + acc.totalInterestThisMonth,
                         !.month = @ + 1],
     push  |-> << [month         |-> f.month,
                   date          |-> addMonths(now, f.month - 1),
                   remainingDebt |-> acc.totalRemainingThisMonth,
                   totalPaid     |-> acc.totalPaidThisMonth,
                   interestPaid  |-> acc.totalInterestThisMonth] >>,
     log   |-> [mode                |-> "fixed",
                month               |-> f.month,
                totalMonthlyPayment |-> f.totalMonthlyPayment,
                minimumPayments     |-> f.minimumPayments,
                activePayments      |-> SumMonthlyPayments(f.remainingDebts),
                monthlyPaymentLeft  |-> acc.monthlyPaymentLeft,
                steps               |-> acc.steps]]

\* lines 501-515 after the for loop left acc: [frame, push, log]
SnowballClose(f, now, acc) ==
    [frame |-> [f EXCEPT !.remainingDebts = SelectSeq(acc.remainingDebts, HasBalance),
                         !.totalPaidSoFar = @ + acc.totalPaidThisMonth,
                         !.totalInterestPaidSoFar = @ + acc.totalInterestThisMonth,
                         !.month = @ + 1],
     push  |-> << [month         |-> f.month,
                   date          |-> addMonths(now, f.month - 1),
                   remainingDebt |-> acc.totalRemainingThisMonth,
                   totalPaid     |-> f.totalPaidSoFar + acc.totalPaidThisMonth,
                   interestPaid  |-> f.totalInterestPaidSoFar + acc.totalInterestThisMonth] >>,
     log   |-> [mode                |-> "fixed",
                month               |-> f.month,
                totalMonthlyPayment |-> f.totalMonthlyPayment,
                minimumPayments     |-> f.minimumPayments,
                activePayments      |-> SumMonthlyPayments(f.remainingDebts),
                monthlyPaymentLeft  |-> acc.monthlyPaymentLeft,
                steps               |-> acc.steps]]

\* one pass through the while body, lines 466-515
SnowballBody(f, now) ==
    SnowballClose(f, now,
        SnowballPay(1, [remainingDebts          |-> f.remainingDebts,
                        monthlyPaymentLeft      |-> f.totalMonthlyPayment,
                        totalRemainingThisMonth |-> 0,
                        totalPaidThisMonth      |-> 0,
                        totalInterestThisMonth  |-> 0,
                        steps                   |-> <<>>]))

\* the running call after lines 408-463
SnowballEntered(f) ==
    [pc          |-> IF SnowballLoopCond(f) THEN "loop" ELSE "done",
     frame       |-> f,
     projections |-> <<>>,
     log         |-> NoLog]

\* lines 413-463 for the debts that passed the two filters
SnowballBegin(debtBalances, budget, strategy, threshold) ==
    IF debtBalances = <<>>
    THEN [pc |-> "done", frame |-> NoFrame, projections |-> <<>>, log |-> NoLog]
    ELSE SnowballEntered(SnowballFrame(debtBalances, budget, strategy, threshold))

\* the call up to the while loop, with its two early returns
SnowballStart(list, now, budget, strategy, threshold) ==
    SnowballBegin(DebtBalances(list, now), budget, strategy, threshold)

\* the running call m after the loop body returned b
SnowballAfter(m, b) ==
    [pc          |-> IF SnowballLoopCond(b.frame) THEN "loop" ELSE "done",
     frame       |-> b.frame,
     projections |-> m.projections \o b.push,
     log         |-> b.log]

\* one pass through the while loop, and the test of its condition
SnowballStep(m, now) == SnowballAfter(m, SnowballBody(m.frame, now))

\* at most n passes through the loop
RECURSIVE SnowballRun(_, _, _)
SnowballRun(m, now, n) ==
    IF n = 0 \/ m.pc = "done" THEN m
    ELSE IF n = 1 THEN SnowballStep(m, now)
    ELSE SnowballRun(SnowballRun(m, now, n \div 2), now, n - (n \div 2))

calculateSnowballProjection(list, now, budget, strategy, threshold) ==
    SnowballRun(SnowballStart(list, now, budget, strategy, threshold), now,
                MaxMonths).projections

----------------------------------------------------------------------------
(* calculateCompleteDebtTimeline: staggered-activation mode *)

\* includedDebts.reduce(... debtStart < earliest ? debtStart : earliest ...)
RECURSIVE EarliestStartDate(_, _)
EarliestStartDate(list, earliest) ==
    IF list = <<>> THEN earliest
    ELSE EarliestStartDate(Tail(list),
            IF DateBefore(Head(list).dateStarted, earliest)
            THEN Head(list).dateStarted ELSE earliest)

\* lines 209-216: one tracked debt
DebtState(debt) ==
    [id               |-> debt.id,
     interestRate     |-> debt.interestRate,
     monthlyPayment   |-> debt.monthlyPayment,
     remainingBalance |-> debt.totalAmount,
     totalPaid        |-> 0,
     interestPaid     |-> 0,
     startDate        |-> debt.dateStarted,
     isActive         |-> FALSE]

\* lines 199-219: the locals before the while loop
TimelineFrame(includedDebts) ==
    [debtStates  |-> [i \in 1..Len(includedDebts) |-> DebtState(includedDebts[i])],
     currentDate |-> EarliestStartDate(includedDebts, includedDebts[1].dateStarted),
     monthCount  |-> 0]

\* a filter that activates every tracked debt whatever the clock says
ActivateAlways(debtStates, currentDate) ==
    [i \in 1..Len(debtStates) |-> [debtStates[i] EXCEPT !.isActive = TRUE]]

\* if (currentDate >= debt.startDate) debt.isActive = true, for every tracked debt
Activate(debtStates, currentDate) ==
    [i \in 1..Len(debtStates) |->
        IF DateAtOrAfter(currentDate, debtStates[i].startDate)
        THEN [debtStates[i] EXCEPT !.isActive = TRUE] ELSE debtStates[i]]

\* debt.isActive && debt.remainingBalance > 0.01 && debt.monthlyPayment
IsPayable(d) == d.isActive /\ d.remainingBalance > Tol /\ Truthy(d.monthlyPayment)

\* the positions in debtStates of the filter's result, in order
RECURSIVE ActiveIndices(_, _)
ActiveIndices(debtStates, i) ==
    IF i > Len(debtStates) THEN <<>>
    ELSE (IF IsPayable(debtStates[i]) THEN <<i>> ELSE <<>>)
         \o ActiveIndices(debtStates, i + 1)

\* activeDebts, as the tracked debts at the positions active
ActiveDebts(debtStates, active) ==
    [i \in 1..Len(active) |-> debtStates[active[i]]]

\* activeDebts.sort((a, b) => a.remainingBalance - b.remainingBalance), on positions
ActiveByBalance(debtStates, active) ==
    SortByKeys(active, [i \in 1..Len(active) |-> debtStates[active[i]].remainingBalance])

\* activeDebts.sort((a, b) => b.interestRate - a.interestRate), on positions
ActiveByRate(debtStates, active) ==
    SortByKeys(active, [i \in 1..Len(active) |-> 0 - debtStates[active[i]].interestRate])

\* activeDebts.sort((a, b) => (b.monthlyPayment || 0) - (a.monthlyPayment || 0))
ActiveByPayment(debtStates, active) ==
    SortByKeys(active,
               [i \in 1..Len(active) |-> 0 - OrZero(debtStates[active[i]].monthlyPayment)])

\* activeDebts.filter(d => d.interestRate >= interestThreshold), on positions
HighInterestActive(debtStates, active, threshold) ==
    SelectSeq(active, LAMBDA k : debtStates[k].interestRate >= threshold)

\* activeDebts.filter(d => d.interestRate < interestThreshold), on positions
LowInterestActive(debtStates, active, threshold) ==
    SelectSeq(active, LAMBDA k : debtStates[k].interestRate < threshold)

\* lines 242-263: switch (paymentStrategy), executed every month; the result
\* lists positions in debtStates
TimelineSort(debtStates, active, strategy, threshold) ==
    CASE strategy = "snowball"  -> ActiveByBalance(debtStates, active)
      [] strategy = "avalanche" -> ActiveByRate(debtStates, active)
      [] strategy = "cashflow"  -> ActiveByPayment(debtStates, active)
      [] strategy = "smart"     ->
            ActiveByRate(debtStates, HighInterestActive(debtStates, active, threshold))
            \o ActiveByBalance(debtStates, LowInterestActive(debtStates, active, threshold))
      [] OTHER -> active

\* the sentinel and the monthly rate of lines 268-269 and 298-299
TimelineMonthlyRate(debtState) == AdjustedInterestRate(debtState.interestRate)

\* debtState.remainingBalance after a payment:
\* if (debtState.remainingBalance < 0.01) it is 0
TimelineSettle(balance) == IF balance < Tol THEN 0 ELSE balance

\* lines 277-286 for debtStates[k], once the payments are known
TimelineApply(k, acc, debtState, interestPayment, principalPayment, entry) ==
    IF principalPayment > 0
    THEN [acc EXCEPT
            !.debtStates[k].remainingBalance =
                    TimelineSettle(debtState.remainingBalance - principalPayment),
            !.debtStates[k].totalPaid = @ + (principalPayment + interestPayment),
            !.debtStates[k].interestPaid = @ + interestPayment,
            !.monthlyPaymentLeft = @ - (principalPayment + interestPayment),
            !.steps = Append(@, entry)]
    ELSE [acc EXCEPT !.steps = Append(@, entry)]

\* lines 268-275 for the debt at position k, the index-th of the month
TimelinePayOne(index, k, acc, debtState) ==
    With(InterestPayment(debtState.remainingBalance, TimelineMonthlyRate(debtState)),
         LAMBDA interestPayment :
    With(AvailablePayment(index, debtState.monthlyPayment, acc.monthlyPaymentLeft),
         LAMBDA availablePayment :
    With(PrincipalPayment(availablePayment, interestPayment, debtState.remainingBalance),
         LAMBDA principalPayment :
            TimelineApply(k, acc, debtState, interestPayment, principalPayment,
                LogEntry(index, debtState.id, debtState.monthlyPayment,
                         debtState.interestRate, debtState.remainingBalance,
                         acc.monthlyPaymentLeft, availablePayment, interestPayment,
                         principalPayment)))))

\* activeDebts.forEach, lines 267-287, from position index on; acc holds
\* debtStates, monthlyPaymentLeft and the log
RECURSIVE TimelinePay(_, _, _)
TimelinePay(order, index, acc) ==
    IF index > Len(order) THEN acc
    ELSE TimelinePay(order, index + 1,
                     TimelinePayOne(index, order[index], acc, acc.debtStates[order[index]]))

\* lines 303-311 for one tracked debt, once the payments are known
StandardApply(debtState, interestPayment, principalPayment) ==
    IF principalPayment > 0
    THEN [debtState EXCEPT
            !.remainingBalance = TimelineSettle(debtState.remainingBalance - principalPayment),
            !.totalPaid        = @ + debtState.monthlyPayment,
            !.interestPaid     = @ + interestPayment]
    ELSE debtState

\* the standard branch, lines 297-312, for one tracked debt
StandardPay(debtState) ==
    IF ~IsPayable(debtState) THEN debtState
    ELSE With(InterestPayment(debtState.remainingBalance, TimelineMonthlyRate(debtState)),
              LAMBDA interestPayment :
                StandardApply(debtState, interestPayment,
                              PrincipalPayment(debtState.monthlyPayment, interestPayment,
                                               debtState.remainingBalance)))

\* debtStates.forEach(debtState => total += debtState[field])
RECURSIVE SumField(_, _)
SumField(list, field) ==
    IF list = <<>> THEN 0 ELSE Head(list)[field] + SumField(Tail(list), field)

\* lines 316-337 once the month's payments left the tracked debts as after:
\* [frame, push, break, log]
TimelineClose(f, after, totalRemaining, log) ==
    [frame |-> [f EXCEPT !.debtStates  = after,
                         !.currentDate = IF totalRemaining <= Tol THEN @ ELSE addMonths(@, 1),
                         !.monthCount  = IF totalRemaining <= Tol THEN @ ELSE @ + 1],
     push  |-> << [month         |-> f.monthCount + 1,
                   date          |-> f.currentDate,
                   remainingDebt |-> totalRemaining,
                   totalPaid     |-> SumField(after, "totalPaid"),
                   interestPaid  |-> SumField(after, "interestPaid")] >>,
     break |-> totalRemaining <= Tol,
     log   |-> log]

\* lines 265-287 and 316-337 for the sorted positions order
TimelinePaid(f, minimumPayments, totalMonthlyPayment, acc) ==
    TimelineClose(f, acc.debtStates, SumField(acc.debtStates, "remainingBalance"),
        [mode                |-> "staggered",
         month               |-> f.monthCount + 1,
         totalMonthlyPayment |-> totalMonthlyPayment,
         minimumPayments     |-> minimumPayments,
         activePayments      |-> minimumPayments,
         monthlyPaymentLeft  |-> acc.monthlyPaymentLeft,
         steps               |-> acc.steps])

\* the strategy branch, lines 236-287, once the budget of the month is known
TimelineBudgeted(f, strategy, threshold, activated, active, minimumPayments, totalMonthlyPayment) ==
    TimelinePaid(f, minimumPayments, totalMonthlyPayment,
        TimelinePay(TimelineSort(activated, active, strategy, threshold), 1,
                    [debtStates         |-> activated,
                     monthlyPaymentLeft |-> totalMonthlyPayment,
                     steps              |-> <<>>]))

\* the strategy branch, lines 236-287
TimelineStrategy(f, strategy, budget, threshold, activated, active) ==
    With(SumMonthlyPayments(ActiveDebts(activated, active)), LAMBDA minimumPayments :
        TimelineBudgeted(f, strategy, threshold, activated, active, minimumPayments,
                         TotalMonthlyPayment(budget, minimumPayments)))

\* the standard branch, lines 290-313, for all tracked debts
TimelineStandard(f, after) ==
    TimelineClose(f, after, SumField(after, "remainingBalance"),
        [mode                |-> "standard",
         month               |-> f.monthCount + 1,
         totalMonthlyPayment |-> 0,
         minimumPayments     |-> 0,
         activePayments      |-> 0,
         monthlyPaymentLeft  |-> 0,
         steps               |-> <<>>])

\* if (paymentStrategy && activeDebts.length > 0) ... else ...
TimelineBranch(f, strategy, budget, threshold, activated, active) ==
    IF strategy # "none" /\ Len(active) > 0
    THEN TimelineStrategy(f, strategy, budget, threshold, activated, active)
    ELSE TimelineStandard(f, [i \in 1..Len(activated) |-> StandardPay(activated[i])])

\* one pass through the while body, lines 222-337
TimelineBody(f, strategy, budget, threshold) ==
    With(Activate(f.debtStates, f.currentDate), LAMBDA activated :
        TimelineBranch(f, strategy, budget, threshold, activated,
                       ActiveIndices(activated, 1)))

\* while (monthCount < 600)
TimelineLoopCond(f) == f.monthCount < MaxMonths

\* the running call after lines 195-219
TimelineEntered(f) ==
    [pc          |-> IF TimelineLoopCond(f) THEN "loop" ELSE "done",
     frame       |-> f,
     projections |-> <<>>,
     log         |-> NoLog]

\* lines 197-219 for the debts that passed the filter
TimelineBegin(includedDebts) ==
    IF includedDebts = <<>>
    THEN [pc |-> "done", frame |-> NoFrame, projections |-> <<>>, log |-> NoLog]
    ELSE TimelineEntered(TimelineFrame(includedDebts))

\* the call up to the while loop: if (includedDebts.length === 0) return []
TimelineStart(list) == TimelineBegin(SelectSeq(list, Included))

\* the running call m after the loop body returned b
TimelineAfter(m, b) ==
    [pc          |-> IF b.break \/ ~TimelineLoopCond(b.frame) THEN "done" ELSE "loop",
     frame       |-> b.frame,
     projections |-> m.projections \o b.push,
     log         |-> b.log]

\* one pass through the while loop, and the test of its condition
TimelineStep(m, strategy, budget, threshold) ==
    TimelineAfter(m, TimelineBody(m.frame, strategy, budget, threshold))

\* at most n passes through the loop
RECURSIVE TimelineRun(_, _, _, _, _)
TimelineRun(m, strategy, budget, threshold, n) ==
    IF n = 0 \/ m.pc = "done" THEN m
    ELSE IF n = 1 THEN TimelineStep(m, strategy, budget, threshold)
    ELSE TimelineRun(TimelineRun(m, strategy, budget, threshold, n \div 2),
                     strategy, budget, threshold, n - (n \div 2))

calculateCompleteDebtTimeline(list, strategy, budget, threshold) ==
    TimelineRun(TimelineStart(list), strategy, budget, threshold, MaxMonths).projections

----------------------------------------------------------------------------
(* calculateTotalDebtProjection: the aggregator *)

\* Math.max(...includedDebts.map(debt => calculateDebtProjection(debt).length))
RECURSIVE MaxProjectionLength(_, _)
MaxProjectionLength(list, now) ==
    IF list = <<>> THEN 0
    ELSE Max(Len(calculateDebtProjection(Head(list), now)),
             MaxProjectionLength(Tail(list), now))

\* new Map<string, { totalPaid: number; interestPaid: number }>()
EmptyTotals == [id \in {} |-> [totalPaid |-> 0, interestPaid |-> 0]]

\* lines 349-357: the locals before the for loop
AggregateFrame(includedDebts, now) ==
    [includedDebts   |-> includedDebts,
     maxMonths       |-> MaxProjectionLength(includedDebts, now),
     month           |-> 1,
     debtFinalTotals |-> EmptyTotals]

\* debtFinalTotals.set(id, { totalPaid, interestPaid })
SetTotals(totals, id, monthData) ==
    [x \in DOMAIN totals \cup {id} |->
        IF x = id THEN [totalPaid    |-> monthData.totalPaid,
                        interestPaid |-> monthData.interestPaid]
        ELSE totals[x]]

\* lines 368-378: the debt has a point for this month
AggregateActive(acc, id, monthData) ==
    [totalRemaining  |-> acc.totalRemaining + monthData.remainingDebt,
     totalPaid       |-> acc.totalPaid + monthData.totalPaid,
     totalInterest   |-> acc.totalInterest + monthData.interestPaid,
     debtFinalTotals |-> SetTotals(acc.debtFinalTotals, id, monthData)]

\* a debt without a point for this month, and its final totals forgotten
AggregateForgets(acc, id) == acc

\* lines 379-387: the debt has no point for this month
AggregateFinished(acc, id) ==
    IF id \in DOMAIN acc.debtFinalTotals
    THEN [acc EXCEPT !.totalPaid     = @ + acc.debtFinalTotals[id].totalPaid,
                     !.totalInterest = @ + acc.debtFinalTotals[id].interestPaid]
    ELSE acc

\* lines 365-387 for one debt, whose projection has just been computed
AggregateOne(acc, month, id, projection) ==
    IF month <= Len(projection)
    THEN AggregateActive(acc, id, projection[month])
    ELSE AggregateFinished(acc, id)

\* includedDebts.forEach, lines 364-388, from index i on
RECURSIVE AggregateMonth(_, _, _, _)
AggregateMonth(f, now, i, acc) ==
    IF i > Len(f.includedDebts) THEN acc
    ELSE AggregateMonth(f, now, i + 1,
            AggregateOne(acc, f.month, f.includedDebts[i].id,
                         calculateDebtProjection(f.includedDebts[i], now)))

\* lines 390-398 after the forEach left acc: [frame, push, break]
AggregateClose(f, now, acc) ==
    [frame |-> [f EXCEPT !.debtFinalTotals = acc.debtFinalTotals,
                         !.month = @ + 1],
     push  |-> << [month         |-> f.month,
                   date          |-> addMonths(now, f.month - 1),
                   remainingDebt |-> acc.totalRemaining,
                   totalPaid     |-> acc.totalPaid,
                   interestPaid  |-> acc.totalInterest] >>,
     break |-> acc.totalRemaining = 0]

\* one pass through the for body, lines 360-398
AggregateBody(f, now) ==
    AggregateClose(f, now,
        AggregateMonth(f, now, 1, [totalRemaining  |-> 0, totalPaid |-> 0,
                                   totalInterest   |-> 0,
                                   debtFinalTotals |-> f.debtFinalTotals]))

\* for (let month = 1; month <= maxMonths; month++)
AggregateLoopCond(f) == f.month <= f.maxMonths

\* the running call after lines 345-357
AggregateEntered(f) ==
    [pc          |-> IF AggregateLoopCond(f) THEN "loop" ELSE "done",
     frame       |-> f,
     projections |-> <<>>,
     log         |-> NoLog]

\* lines 347-357 for the debts that passed the filter
AggregateBegin(includedDebts, now) ==
    IF includedDebts = <<>>
    THEN [pc |-> "done", frame |-> NoFrame, projections |-> <<>>, log |-> NoLog]
    ELSE AggregateEntered(AggregateFrame(includedDebts, now))

\* the call up to the for loop: if (includedDebts.length === 0) return []
AggregateStart(list, now) == AggregateBegin(SelectSeq(list, Included), now)

\* the running call m after the loop body returned b
AggregateAfter(m, b) ==
    [pc          |-> IF b.break \/ ~AggregateLoopCond(b.frame) THEN "done" ELSE "loop",
     frame       |-> b.frame,
     projections |-> m.projections \o b.push,
     log         |-> NoLog]

\* one pass through the for loop, and the test of its condition
AggregateStep(m, now) == AggregateAfter(m, AggregateBody(m.frame, now))

\* at most n passes through the loop
RECURSIVE AggregateRun(_, _, _)
AggregateRun(m, now, n) ==
    IF n = 0 \/ m.pc = "done" THEN m
    ELSE IF n = 1 THEN AggregateStep(m, now)
    ELSE AggregateRun(AggregateRun(m, now, n \div 2), now, n - (n \div 2))

calculateTotalDebtProjection(list, now) ==
    AggregateRun(AggregateStart(list, now), now, MaxMonths).projections

----------------------------------------------------------------------------
(* The calls as a state machine: one action enters a function (its code up *)
(* to the loop), one action runs one pass of its loop.                     *)

\* the caller's array after a sort applied to it rather than to a copy
SortedInPlace(list) == SortByPayment(list)

\* the caller's array after a step of a call: the functions filter and map it
\* into new arrays of copied objects ({...debt}) and assign to the copies only
CallerDebts(list) == list

\* what a step of a call leaves of its arguments and of the clock
InputsKept ==
    /\ debts' = CallerDebts(debts)
    /\ UNCHANGED <<today, paymentStrategy, totalMonthlyBudget, interestThreshold, call>>
    /\ UNCHANGED stores

\* the running call: position, locals, output so far, last month's log
Machine == [pc |-> pc, frame |-> frame, projections |-> projections, log |-> monthLog]

Becomes(m) ==
    /\ pc' = m.pc
    /\ frame' = m.frame
    /\ projections' = m.projections
    /\ monthLog' = m.log

\* calculateCurrentBalance(debts[1]) called on its own
BalanceCall ==
    /\ pc = "start" /\ call = "calculateCurrentBalance"
    /\ frame' = [balanceInfo |-> calculateCurrentBalance(debts[1], today)]
    /\ pc' = "done"
    /\ InputsKept
    /\ UNCHANGED <<projections, monthLog>>

\* calculateDebtProjection(debts[1]) up to its while loop
ProjectionEnter ==
    /\ pc = "start" /\ call = "calculateDebtProjection"
    /\ Becomes(ProjectionStart(debts[1], today))
    /\ InputsKept

\* one month of calculateDebtProjection
ProjectionIterate ==
    /\ pc = "loop" /\ call = "calculateDebtProjection"
    /\ Becomes(ProjectionStep(Machine))
    /\ InputsKept

\* calculateSnowballProjection up to its while loop
SnowballEnter ==
    /\ pc = "start" /\ call = "calculateSnowballProjection"
    /\ Becomes(SnowballStart(debts, today, totalMonthlyBudget, paymentStrategy,
                             interestThreshold))
    /\ InputsKept

\* one month of calculateSnowballProjection
SnowballIterate(limit) ==
    /\ pc = "loop" /\ call = "calculateSnowballProjection"
    /\ Len(projections) < limit
    /\ Becomes(SnowballStep(Machine, today))
    /\ InputsKept

\* calculateCompleteDebtTimeline up to its while loop
TimelineEnter ==
    /\ pc = "start" /\ call = "calculateCompleteDebtTimeline"
    /\ Becomes(TimelineStart(debts))
    /\ InputsKept

\* one month of calculateCompleteDebtTimeline
TimelineIterate(limit) ==
    /\ pc = "loop" /\ call = "calculateCompleteDebtTimeline"
    /\ Len(projections) < limit
    /\ Becomes(TimelineStep(Machine, paymentStrategy, totalMonthlyBudget,
                            interestThreshold))
    /\ InputsKept

\* calculateTotalDebtProjection up to its for loop
AggregateEnter ==
    /\ pc = "start" /\ call = "calculateTotalDebtProjection"
    /\ Becomes(AggregateStart(debts, today))
    /\ InputsKept

\* one month of calculateTotalDebtProjection
AggregateIterate(limit) ==
    /\ pc = "loop" /\ call = "calculateTotalDebtProjection"
    /\ Len(projections) < limit
    /\ Becomes(AggregateStep(Machine, today))
    /\ InputsKept

----------------------------------------------------------------------------
(* Inputs *)

\* how many months before today a debt may have started
MaxBack == 3

\* how many months of a portfolio simulation are explored
Horizon == 8

\* the largest portfolio
MaxDebts == 3

\* interestThreshold: number = 5, in tenths of a percent
DefaultThreshold == 50

Today == MkDate(2025, 3, 30)

\* today, 1..MaxBack whole months ago, a day short of two months ago, next month
StartDates ==
    {addMonths(Today, 0 - k) : k \in 0..MaxBack}
        \cup {MkDate(2025, 1, 31), addMonths(Today, 1)}

MkDebt(id, total, current, rate, started, payment, include) ==
    [id |-> id, totalAmount |-> total, currentAmount |-> current,
     interestRate |-> rate, dateStarted |-> started, monthlyPayment |-> payment,
     includeInTotal |-> include]

\* single debts for calculateCurrentBalance and calculateDebtProjection; a
\* currentAmount other than totalAmount is a manual override
ProjectionDebts ==
    UNION {{MkDebt("a", total, current, rate, started, payment, "true") :
               current \in {total, 700}, rate \in {0, 12, 120, 1000},
               started \in StartDates, payment \in {Undefined, 0, 1, 2, 100, 599, 1300}} :
           total \in {0, 3, 4, 1200}}

\* the debts portfolios are made of: a cannot cover its interest with its own
\* payment, b is small, c started two months ago, d carries the 1.2% rate,
\* e has no monthly payment, f starts next month, g is a little larger than a
\* and its own payments leave exactly 0.01
Catalog ==
    << MkDebt("a", 1200, 1200, 1000, Today, 50, "true"),
       MkDebt("b", 150, 150, 0, Today, 100, "undefined"),
       MkDebt("c", 1000, 1000, 0, addMonths(Today, 0 - 2), 10, "true"),
       MkDebt("d", 1010, 1010, 12, Today, 490, "true"),
       MkDebt("e", 1200, 1200, 0, Today, Undefined, "undefined"),
       MkDebt("f", 600, 600, 120, addMonths(Today, 1), 30, "true"),
       MkDebt("g", 1202, 1202, 0, Today, 20, "true") >>

\* the debts of the catalog at the positions S, in catalog order
Pick(S) ==
    [p \in 1..Cardinality(S) |->
        Catalog[CHOOSE i \in S : Cardinality({j \in S : j < i}) = p - 1]]

\* lists of 1..MaxDebts debts of the catalog
Portfolios ==
    {Pick(S) : S \in {T \in SUBSET (1..Len(Catalog)) :
                          Cardinality(T) >= 1 /\ Cardinality(T) <= MaxDebts}}

\* the portfolio p with includeInTotal = false on the debts at the positions off
Excluding(p, off) ==
    [i \in 1..Len(p) |-> IF i \in off THEN [p[i] EXCEPT !.includeInTotal = "false"]
                         ELSE p[i]]

Strategies == {"snowball", "avalanche", "cashflow", "smart"}

\* absent, zero, negative, below and above the minimum payments
Budgets == {Undefined, 0, 0 - 50, 60, 700}

\* the budgets a call may be given for the debt list list: those of Budgets,
\* and the sum of the stated payments of the debts that count
BudgetsFor(list) == Budgets \cup {SumMonthlyPayments(SelectSeq(list, Included))}

InitCommon ==
    /\ NoStorage
    /\ today = Today
    /\ pc = "start"
    /\ frame = NoFrame
    /\ projections = <<>>
    /\ monthLog = NoLog

InitProjection ==
    /\ InitCommon
    /\ debts \in {<<d>> : d \in ProjectionDebts}
    /\ call \in {"calculateCurrentBalance", "calculateDebtProjection"}
    /\ paymentStrategy = "none"
    /\ totalMonthlyBudget = Undefined
    /\ interestThreshold = DefaultThreshold

InitPortfolio ==
    /\ InitCommon
    /\ \E p \in Portfolios : \E off \in SUBSET (1..Len(p)) : debts = Excluding(p, off)
    /\ interestThreshold = DefaultThreshold
    /\ \/ /\ call = "calculateTotalDebtProjection"
          /\ paymentStrategy = "none"
          /\ totalMonthlyBudget = Undefined
       \/ /\ call = "calculateSnowballProjection"
          /\ paymentStrategy \in Strategies
          /\ totalMonthlyBudget \in BudgetsFor(debts)
       \/ /\ call = "calculateCompleteDebtTimeline"
          /\ paymentStrategy \in Strategies \cup {"none"}
          /\ totalMonthlyBudget \in BudgetsFor(debts)

NextProjection == BalanceCall \/ ProjectionEnter \/ ProjectionIterate

NextPortfolio ==
    \/ SnowballEnter \/ SnowballIterate(Horizon)
    \/ TimelineEnter \/ TimelineIterate(Horizon)
    \/ AggregateEnter \/ AggregateIterate(Horizon)

SpecProjection == InitProjection /\ [][NextProjection]_vars

\* the largest portfolio simulated to its end
TerminationDebts == 2

\* the strategy simulations on small portfolios, never interrupted
InitTermination ==
    /\ InitCommon
    /\ debts \in {p \in Portfolios : Len(p) <= TerminationDebts}
    /\ interestThreshold = DefaultThreshold
    /\ totalMonthlyBudget \in {Undefined, 700}
    /\ \/ /\ call = "calculateSnowballProjection"
          /\ paymentStrategy \in {"snowball", "avalanche"}
       \/ /\ call = "calculateCompleteDebtTimeline"
          /\ paymentStrategy \in {"snowball", "avalanche"}

\* every month of a simulation is a step: the loops run to their own end
NextTermination ==
    \/ SnowballEnter \/ SnowballIterate(MaxMonths + 1)
    \/ TimelineEnter \/ TimelineIterate(MaxMonths + 1)

SpecTermination == InitTermination /\ [][NextTermination]_vars

SpecPortfolio == InitPortfolio /\ [][NextPortfolio]_vars

Init == InitProjection \/ InitPortfolio

Next == NextProjection \/ NextPortfolio

Spec == Init /\ [][Next]_vars

----------------------------------------------------------------------------
(* Properties of calculateDebtProjection and calculateCurrentBalance,      *)
(* checked under SpecProjection.                                           *)

\* the single debt of the call
TheDebt == debts[1]

\* calculateDebtProjection has returned, and it ran past its first return
ProjectionReturned ==
    call = "calculateDebtProjection" /\ pc = "done" /\ Truthy(TheDebt.monthlyPayment)

\* the interest the first month charges on the balance the projection starts from
FirstInterest ==
    InterestPayment(frame.actualCurrentBalance, AdjustedInterestRate(TheDebt.interestRate))

\* C1: in the sequence calculateDebtProjection builds and returns, from each
\* point to the next remainingDebt does not increase and totalPaid and
\* interestPaid do not decrease, with or without a manual currentAmount.
ProjectionMonotonic ==
    call = "calculateDebtProjection" =>
        \A i \in 1..(Len(projections) - 1) :
            /\ projections[i + 1].remainingDebt <= projections[i].remainingDebt
            /\ projections[i + 1].totalPaid >= projections[i].totalPaid
            /\ projections[i + 1].interestPaid >= projections[i].interestPaid

\* a returned projection of several points for a debt with a manual
\* currentAmount, whose interest has grown along the way
ProjectionMonotonicSeen ==
    /\ ProjectionReturned
    /\ TheDebt.currentAmount # TheDebt.totalAmount
    /\ Len(projections) >= 3
    /\ projections[Len(projections)].interestPaid > projections[1].interestPaid
    /\ projections[Len(projections)].remainingDebt < projections[1].remainingDebt

\* C2: when the positive monthlyPayment exceeds the first month's interest on
\* a starting balance above 0.01, calculateDebtProjection returns a non-empty
\* sequence of at most 600 points, remainingDebt strictly decreases at every
\* step, and unless there are exactly 600 points the last remainingDebt is 0.
ProjectionPaysOff ==
    (/\ ProjectionReturned
     /\ TheDebt.monthlyPayment > 0
     /\ frame.actualCurrentBalance > Tol
     /\ TheDebt.monthlyPayment > FirstInterest)
    => /\ Len(projections) >= 1
       /\ Len(projections) <= 600
       /\ projections[1].remainingDebt < frame.actualCurrentBalance
       /\ \A i \in 1..(Len(projections) - 1) :
             projections[i + 1].remainingDebt < projections[i].remainingDebt
       /\ Len(projections) # 600 => projections[Len(projections)].remainingDebt = 0

\* C3: when monthlyPayment is at most the monthly interest on the starting
\* balance, calculateDebtProjection returns the empty sequence, and
\* calculateCurrentBalance with at least one whole month elapsed returns
\* currentBalance = totalAmount, totalPaid = 0 and interestPaid = 0.
InsufficientPaymentStops ==
    /\ (ProjectionReturned /\ TheDebt.monthlyPayment <= FirstInterest)
       => projections = <<>>
    /\ (/\ pc = "done"
        /\ call = "calculateCurrentBalance" \/ ProjectionReturned
        /\ MonthsElapsed(TheDebt.dateStarted, today) >= 1
        /\ OrZero(TheDebt.monthlyPayment)
              <= InterestPayment(TheDebt.totalAmount,
                                 AdjustedInterestRate(TheDebt.interestRate)))
       => /\ frame.balanceInfo.currentBalance = TheDebt.totalAmount
          /\ frame.balanceInfo.totalPaid = 0
          /\ frame.balanceInfo.interestPaid = 0

\* a debt started months ago whose payment equals its monthly interest: the
\* reconstruction inside the projection has stopped at its first month and
\* the projection is empty
InsufficientPaymentSeen ==
    /\ ProjectionReturned
    /\ TheDebt.currentAmount = TheDebt.totalAmount
    /\ MonthsElapsed(TheDebt.dateStarted, today) >= 2
    /\ FirstInterest > 0
    /\ TheDebt.monthlyPayment = FirstInterest
    /\ frame.balanceInfo.monthsElapsed >= 2
    /\ frame.balanceInfo.totalPaid = 0
    /\ projections = <<>>

\* the debt of the call with the other of the two rates 1.2 and 0
Twin(debt) ==
    [debt EXCEPT !.interestRate = IF @ = ZeroInterestSentinel THEN 0
                                  ELSE ZeroInterestSentinel]

\* C4: two debts that differ only in that one has interestRate 1.2 and the
\* other 0 get the same result from calculateCurrentBalance and the same
\* sequence from calculateDebtProjection.
SentinelIsZeroRate ==
    (pc = "done" /\ TheDebt.interestRate \in {0, ZeroInterestSentinel})
    => /\ call = "calculateCurrentBalance"
          => frame.balanceInfo = calculateCurrentBalance(Twin(TheDebt), today)
       /\ call = "calculateDebtProjection"
          => projections = calculateDebtProjection(Twin(TheDebt), today)

\* a returned projection of a debt at 1.2%, started months ago, on a balance
\* on which 1.2% a year would be a charge
SentinelIsZeroRateSeen ==
    /\ ProjectionReturned
    /\ TheDebt.interestRate = ZeroInterestSentinel
    /\ frame.balanceInfo.monthsElapsed >= 1
    /\ frame.balanceInfo.totalPaid > 0
    /\ InterestPayment(frame.actualCurrentBalance, ZeroInterestSentinel) > 0
    /\ Len(projections) >= 2
    /\ projections[Len(projections)].interestPaid = 0

----------------------------------------------------------------------------
(* Properties of the portfolio functions, checked under SpecPortfolio.     *)

\* the call with which the running call is compared, on the debt list list,
\* after as many passes through its loop as the running call has made
Rerun(list) ==
    CASE call = "calculateSnowballProjection" ->
            SnowballRun(SnowballStart(list, today, totalMonthlyBudget, paymentStrategy,
                                      interestThreshold),
                        today, Len(projections))
      [] call = "calculateCompleteDebtTimeline" ->
            TimelineRun(TimelineStart(list), paymentStrategy, totalMonthlyBudget,
                        interestThreshold, Len(projections))
      [] call = "calculateTotalDebtProjection" ->
            AggregateRun(AggregateStart(list, today), today, Len(projections))

\* the running call has produced what the compared call produces, and has
\* returned if and only if the compared call has
SameAs(m) == m.projections = projections /\ m.pc = pc

\* a month has just been simulated under a named strategy
StrategyMonth == monthLog.mode \in {"fixed", "staggered"}

\* the debts processed in that month, in processing order
Steps == monthLog.steps

\* C5: in both strategy modes a debt at interestRate 1.2 is charged no
\* interest: for a one-debt portfolio, under every strategy and budget,
\* replacing 1.2 by 0 gives the same output point for point.
SimulatorSentinelIsZeroRate ==
    (/\ call \in {"calculateSnowballProjection", "calculateCompleteDebtTimeline"}
     /\ paymentStrategy \in Strategies
     /\ pc # "start"
     /\ Len(debts) = 1
     /\ debts[1].interestRate = ZeroInterestSentinel)
    => SameAs(Rerun(<<Twin(debts[1])>>))

\* the debt list without the debts whose includeInTotal is false
WithoutExcluded == SelectSeq(debts, LAMBDA d : d.includeInTotal # "false")

\* C6: debts with includeInTotal = false have no influence: the aggregator,
\* the fixed-cohort simulator and the staggered simulator produce what they
\* produce for the list with those debts removed, month by month, with the
\* same budget and processing order.
ExcludedDebtsHaveNoInfluence ==
    (call \in {"calculateTotalDebtProjection", "calculateSnowballProjection",
               "calculateCompleteDebtTimeline"} /\ pc # "start")
    => /\ SameAs(Rerun(WithoutExcluded))
       /\ Rerun(WithoutExcluded).log = monthLog

\* several months of a strategy simulation of a list in which an excluded
\* debt with a payment, already started, stands before an included one
ExcludedDebtsSeen ==
    /\ StrategyMonth
    /\ Len(projections) >= 2
    /\ Len(debts) >= 2
    /\ debts[1].includeInTotal = "false"
    /\ Truthy(debts[1].monthlyPayment)
    /\ ~DateBefore(today, debts[1].dateStarted)
    /\ \E i \in 2..Len(debts) : debts[i].includeInTotal # "false"
    /\ Len(Steps) >= 1

\* the sum of the stated monthly payments of the debts processed in the month
RECURSIVE StatedPayments(_)
StatedPayments(steps) ==
    IF steps = <<>> THEN 0
    ELSE OrZero(Head(steps).monthlyPayment) + StatedPayments(Tail(steps))

\* the minimum payments the mode sums: of the debts that qualified at the
\* first month in fixed-cohort mode, of the month's active debts in
\* staggered mode
SumOfMinimumPayments ==
    IF monthLog.mode = "fixed"
    THEN SumMonthlyPayments(DebtBalances(debts, today))
    ELSE StatedPayments(Steps)

\* C7: in every simulated month of both modes the budget to allocate is at
\* least the sum of the stated payments of the month's active debts, and a
\* supplied budget that is absent, zero, negative or below that sum is
\* replaced by the sum of minimum payments.
BudgetFloor ==
    StrategyMonth =>
        /\ monthLog.totalMonthlyPayment >= StatedPayments(Steps)
        /\ (\/ totalMonthlyBudget = Undefined
            \/ totalMonthlyBudget <= 0
            \/ totalMonthlyBudget < StatedPayments(Steps))
           => monthLog.totalMonthlyPayment = SumOfMinimumPayments

\* a month with two active debts whose payments sum to more than the
\* supplied positive budget
BudgetFloorSeen ==
    /\ StrategyMonth
    /\ Len(Steps) >= 2
    /\ totalMonthlyBudget > 0
    /\ totalMonthlyBudget < StatedPayments(Steps)
    /\ monthLog.totalMonthlyPayment > totalMonthlyBudget

\* the sum of what the debts processed in the month were paid
RECURSIVE PaidInMonth(_)
PaidInMonth(steps) ==
    IF steps = <<>> THEN 0 ELSE Head(steps).paid + PaidInMonth(Tail(steps))

\* C8: in every simulated month under a named strategy, in both modes, the
\* remaining budget is never negative, the payments of the month sum to at
\* most the month's budget, the focused debt is offered the whole budget and
\* a non-focused debt is paid at most min(its stated payment, what is left).
BudgetNeverOverspent ==
    StrategyMonth =>
        /\ monthLog.monthlyPaymentLeft >= 0
        /\ \A k \in 1..Len(Steps) : Steps[k].leftBefore >= 0
        /\ PaidInMonth(Steps) <= monthLog.totalMonthlyPayment
        /\ Len(Steps) >= 1 =>
              /\ Steps[1].leftBefore = monthLog.totalMonthlyPayment
              /\ Steps[1].availablePayment = monthLog.totalMonthlyPayment
        /\ \A k \in 2..Len(Steps) :
              Steps[k].paid <= Min(OrZero(Steps[k].monthlyPayment), Steps[k].leftBefore)

\* a month in which the focused debt took more than its own payment and a
\* later debt was paid what was left, less than its stated payment
BudgetNeverOverspentSeen ==
    /\ StrategyMonth
    /\ Len(Steps) >= 2
    /\ Steps[1].paid > OrZero(Steps[1].monthlyPayment)
    /\ \E k \in 2..Len(Steps) :
          /\ Steps[k].paid > 0
          /\ Steps[k].paid = Steps[k].leftBefore
          /\ Steps[k].leftBefore < Steps[k].monthlyPayment

\* C9: under the snowball strategy, in every simulated month of both modes,
\* the focused debt has the smallest balance at the start of the month among
\* the active debts.
SnowballFocusIsSmallest ==
    (StrategyMonth /\ paymentStrategy = "snowball") =>
        \A k \in 1..Len(Steps) : Steps[1].balanceBefore <= Steps[k].balanceBefore

\* the active debt at position k of the month is at or above the threshold
AtOrAboveThreshold(k) == Steps[k].interestRate >= interestThreshold

\* C10: under the smart strategy, in every simulated month of both modes: if
\* an active debt is at or above the threshold, all such debts are processed
\* before any debt below it and the focused debt has the highest rate among
\* them; otherwise the focused debt has the smallest balance at the start of
\* the month among the active debts.
SmartOrdering ==
    (StrategyMonth /\ paymentStrategy = "smart") =>
        IF \E k \in 1..Len(Steps) : AtOrAboveThreshold(k)
        THEN /\ \A i, j \in 1..Len(Steps) :
                    (i < j /\ AtOrAboveThreshold(j)) => AtOrAboveThreshold(i)
             /\ \A k \in 1..Len(Steps) :
                    AtOrAboveThreshold(k) => Steps[1].interestRate >= Steps[k].interestRate
        ELSE \A k \in 1..Len(Steps) : Steps[1].balanceBefore <= Steps[k].balanceBefore

\* the debts that take part in a strategy simulation: counted, with a
\* positive payment and something owed
Payers ==
    SelectSeq(debts, LAMBDA d : /\ d.includeInTotal # "false"
                                /\ Truthy(d.monthlyPayment) /\ d.monthlyPayment > 0
                                /\ d.totalAmount > Tol)

\* a snowball month of two or more debts that all started today, the
\* supplied budget being the sum of their stated payments
SummedBudgetMonth ==
    /\ StrategyMonth
    /\ paymentStrategy = "snowball"
    /\ Len(Payers) >= 2
    /\ \A i \in 1..Len(Payers) : Payers[i].dateStarted = today
    /\ totalMonthlyBudget = SumMonthlyPayments(Payers)

\* the debt Payers[i] is the smaller debt: it owes less than every other
SmallerDebt(i) ==
    \A j \in 1..Len(Payers) : j # i => Payers[i].totalAmount < Payers[j].totalAmount

\* the debt Payers[i] still owes something: the month processed it
StillOwes(i) == \E k \in 1..Len(Steps) : Steps[k].id = Payers[i].id

CoversInterest(i) ==
    totalMonthlyBudget > InterestPayment(Payers[i].totalAmount, Payers[i].interestRate)

Tracked ==
    IF call = "calculateCompleteDebtTimeline" /\ frame # NoFrame
    THEN frame.debtStates ELSE <<>>

\* the debts the tracked debts were made from, in the same order
TrackedInputs == SelectSeq(debts, Included)

\* the clock has not reached the start date of the i-th tracked debt in any
\* month simulated so far
NotYetStarted(i) ==
    \/ projections = <<>>
    \/ DateBefore(projections[Len(projections)].date, Tracked[i].startDate)

\* the start dates the clock has reached in the month just simulated
StartedPayments ==
    SumMonthlyPayments(SelectSeq(Tracked,
        LAMBDA d : DateAtOrAfter(projections[Len(projections)].date, d.startDate)))

\* the i-th tracked debt is as it was constructed, and the month just
\* simulated has neither counted nor paid it
Untouched(i) ==
    /\ ~Tracked[i].isActive
    /\ Tracked[i].remainingBalance = TrackedInputs[i].totalAmount
    /\ Tracked[i].totalPaid = 0
    /\ Tracked[i].interestPaid = 0
    /\ \A k \in 1..Len(Steps) : Steps[k].id # Tracked[i].id
    /\ StrategyMonth /\ projections # <<>> => monthLog.minimumPayments <= StartedPayments

\* C12: in calculateCompleteDebtTimeline a debt whose dateStarted the clock
\* has not reached keeps remainingBalance = totalAmount, totalPaid = 0 and
\* interestPaid = 0, is not counted in the month's minimum payments and gets
\* no allocation; and a debt that is active stays active in every later month
InactiveDebtUntouched ==
    /\ [](\A i \in 1..Len(Tracked) : NotYetStarted(i) => Untouched(i))
    /\ [][\A i \in 1..Len(Tracked) : Tracked[i].isActive => Tracked'[i].isActive]_vars

\* a month in which a debt that has not started yet would have been payable,
\* while an active debt was paid and part of the budget was left over; and a
\* debt that started earlier is active
InactiveDebtSeen ==
    /\ call = "calculateCompleteDebtTimeline" /\ StrategyMonth
    /\ monthLog.monthlyPaymentLeft > 0
    /\ \E k \in 1..Len(Steps) : Steps[k].paid > 0
    /\ \E i \in 1..Len(Tracked) :
            /\ NotYetStarted(i) /\ Untouched(i)
            /\ Truthy(Tracked[i].monthlyPayment) /\ Tracked[i].remainingBalance > Tol
    /\ \E j \in 1..Len(Tracked) : Tracked[j].isActive /\ Tracked[j].totalPaid > 0

----------------------------------------------------------------------------
(* Termination of the two strategy simulations, checked under              *)
(* SpecTermination.                                                        *)

\* the last point emitted so far
Last == projections[Len(projections)]

\* after the month just simulated fixed-cohort mode holds no debt above 0.01
NoDebtLeft == frame.remainingDebts = <<>> /\ Last.remainingDebt = 0

\* what holds of the points emitted so far in either strategy mode
TerminationShape ==
    /\ Len(projections) <= MaxMonths
    /\ \A k \in 1..(Len(projections) - 1) : projections[k].remainingDebt > Tol
    /\ (pc = "loop" /\ projections # <<>>) =>
            /\ Len(projections) < MaxMonths
            /\ Last.remainingDebt > Tol
    /\ (pc = "done" /\ projections # <<>>) =>
            \/ Len(projections) = MaxMonths /\ Last.remainingDebt > Tol
            \/ /\ Last.remainingDebt <= Tol
               /\ call = "calculateSnowballProjection" => NoDebtLeft

\* a pass through either loop emits exactly one point, and a call that has
\* returned emits none: with the cap on the number of points this is what
\* makes the loops end
Advances ==
    /\ pc = "loop" => Len(projections') = Len(projections) + 1
    /\ pc = "done" => projections' = projections

\* C13: both strategy modes return, with at most 600 points; the last point
\* is that of the first month that leaves no debt above 0.01 (fixed-cohort)
\* or an aggregate remaining debt of at most 0.01 (staggered), no point
\* follows it, and a simulation that never gets there emits exactly 600
Terminates == []TerminationShape /\ [][Advances]_vars

\* a simulation that stopped at a payoff after more than one month, in
\* either mode
TerminatesAtPayoffSeen ==
    /\ pc = "done" /\ Len(projections) > 1 /\ Len(projections) < MaxMonths
    /\ Last.remainingDebt <= Tol
    /\ \/ call = "calculateCompleteDebtTimeline"
       \/ call = "calculateSnowballProjection" /\ NoDebtLeft

\* the balances fixed-cohort mode carries into the next month
CarriedBalances == SumField(frame.remainingDebts, "currentBalance")

\* C14: after every simulated month, in both strategy modes, a debt that
\* has received a payment has a balance of exactly 0 or above 0.01 (a
\* balance at or below 0.01 is snapped to 0), and a debt at or below 0.01
\* gets no allocation in a later month
NoResidue ==
    /\ StrategyMonth => \A k \in 1..Len(Steps) : Steps[k].balanceBefore > Tol
    /\ (call = "calculateSnowballProjection" /\ projections # <<>>) =>
            /\ \A i \in 1..Len(frame.remainingDebts) :
                    frame.remainingDebts[i].currentBalance > Tol
            /\ Last.remainingDebt = CarriedBalances
    /\ \A i \in 1..Len(Tracked) :
            Tracked[i].totalPaid > 0 =>
                Tracked[i].remainingBalance = 0 \/ Tracked[i].remainingBalance > Tol

----------------------------------------------------------------------------
(* Properties of calculateTotalDebtProjection, checked under SpecPortfolio. *)

\* what a debt with the projection projection is expected to add to the
\* totals of the month month
Contribution(projection, month) ==
    IF month <= Len(projection)
    THEN [remainingDebt |-> projection[month].remainingDebt,
          totalPaid     |-> projection[month].totalPaid,
          interestPaid  |-> projection[month].interestPaid]
    ELSE IF projection = <<>>
    THEN [remainingDebt |-> 0, totalPaid |-> 0, interestPaid |-> 0]
    ELSE [remainingDebt |-> 0,
          totalPaid     |-> projection[Len(projection)].totalPaid,
          interestPaid  |-> projection[Len(projection)].interestPaid]

\* the contributions of the counted debts to the month month
Contributions(month) ==
    [i \in 1..Len(TrackedInputs) |->
        Contribution(calculateDebtProjection(TrackedInputs[i], today), month)]

\* the i-th counted debt's own projection ended before the latest month
EndedEarlier(i) ==
    With(calculateDebtProjection(TrackedInputs[i], today), LAMBDA projection :
        projection # <<>> /\ Len(projection) < Len(projections))

\* C15: the aggregator's totalPaid and interestPaid never decrease from one
\* month to the next, also when the debts' projections have different
\* lengths: a debt whose projection has ended keeps adding its final
\* totalPaid and interestPaid, and adds 0 to remainingDebt
AggregateNeverDecreases ==
    (call = "calculateTotalDebtProjection" /\ projections # <<>>) =>
        /\ \A k \in 1..(Len(projections) - 1) :
                /\ projections[k + 1].totalPaid >= projections[k].totalPaid
                /\ projections[k + 1].interestPaid >= projections[k].interestPaid
        /\ Last.remainingDebt = SumField(Contributions(Len(projections)), "remainingDebt")
        /\ Last.totalPaid = SumField(Contributions(Len(projections)), "totalPaid")
        /\ Last.interestPaid = SumField(Contributions(Len(projections)), "interestPaid")

\* a month after one debt's projection has ended with payments made, while
\* another debt is still being paid
AggregateNeverDecreasesSeen ==
    /\ call = "calculateTotalDebtProjection" /\ Len(projections) >= 2
    /\ Last.remainingDebt > 0
    /\ Last.totalPaid > projections[Len(projections) - 1].totalPaid
    /\ \E i \in 1..Len(TrackedInputs) :
            /\ EndedEarlier(i)
            /\ Contributions(Len(projections))[i].totalPaid > 0

\* the amounts of a sequence of points, without their dates
Amounts(points) ==
    [k \in 1..Len(points) |-> [month         |-> points[k].month,
                               remainingDebt |-> points[k].remainingDebt,
                               totalPaid     |-> points[k].totalPaid,
                               interestPaid  |-> points[k].interestPaid]]

\* every counted debt starts today and has no manual balance
AllStartToday ==
    \A i \in 1..Len(TrackedInputs) :
        /\ TrackedInputs[i].dateStarted = today
        /\ TrackedInputs[i].currentAmount = TrackedInputs[i].totalAmount

\* calculateTotalDebtProjection(debts) after as many months as the running
\* call has simulated
AggregatorSoFar == AggregateRun(AggregateStart(debts, today), today, Len(projections))

\* C16: for debts that all start today with currentAmount = totalAmount,
\* calculateCompleteDebtTimeline(debts, null) returns as many points as
\* calculateTotalDebtProjection(debts), with the same remainingDebt,
\* totalPaid and interestPaid, also when a debt has no monthlyPayment or a
\* payment that does not cover its interest
StandardIsAggregator ==
    (/\ call = "calculateCompleteDebtTimeline" /\ paymentStrategy = "none"
     /\ pc # "start" /\ AllStartToday)
    => /\ Amounts(AggregatorSoFar.projections) = Amounts(projections)
       /\ AggregatorSoFar.pc = pc

----------------------------------------------------------------------------
(* Properties of all the functions, checked under Spec.                    *)

\* the same call made again now, on the arguments as the running call has
\* left them, gives what the running call has given
Repeatable ==
    CASE call = "calculateCurrentBalance" ->
            pc = "done" => frame.balanceInfo = calculateCurrentBalance(debts[1], today)
      [] call = "calculateDebtProjection" ->
            pc = "done" => calculateDebtProjection(debts[1], today) = projections
      [] OTHER -> SameAs(Rerun(debts))

----------------------------------------------------------------------------
(* Properties of calculateCurrentBalance, checked under SpecProjection.    *)

\* calculateCurrentBalance has returned
BalanceReturned == call = "calculateCurrentBalance" /\ pc = "done"

\* the debt started k whole months ago, carries no interest, and k of its
\* payments do not exceed the amount
PaidForMonths(k) ==
    /\ TheDebt.dateStarted = addMonths(today, 0 - k)
    /\ TheDebt.interestRate \in {0, ZeroInterestSentinel}
    /\ Truthy(TheDebt.monthlyPayment) /\ TheDebt.monthlyPayment > 0
    /\ k * TheDebt.monthlyPayment <= TheDebt.totalAmount

\* k payments and no interest
PaidExactly(k) ==
    frame.balanceInfo = [monthsElapsed  |-> k,
                         totalPaid      |-> k * TheDebt.monthlyPayment,
                         interestPaid   |-> 0,
                         currentBalance |-> TheDebt.totalAmount - k * TheDebt.monthlyPayment]

\* C18 as stated: for a debt without interest (rate 0 or 1.2) with payment
\* p > 0 that started k >= 1 whole months ago, k * p <= totalAmount,
\* calculateCurrentBalance returns monthsElapsed = k, totalPaid = k * p,
\* interestPaid = 0 and currentBalance = totalAmount - k * p
ZeroInterestHistory ==
    BalanceReturned => \A k \in 1..MaxBack : PaidForMonths(k) => PaidExactly(k)

\* the balance before the last of k payments is above 0.01
OwingBeforeLast(k) == TheDebt.totalAmount - (k - 1) * TheDebt.monthlyPayment > Tol

\* C18 amended: the same, for a debt whose balance before the last of the
\* k payments is above 0.01
ZeroInterestHistoryWhileOwing ==
    BalanceReturned =>
        \A k \in 1..MaxBack : (PaidForMonths(k) /\ OwingBeforeLast(k)) => PaidExactly(k)

\* a debt at the 1.2% rate reconstructed over several months
ZeroInterestHistorySeen ==
    /\ BalanceReturned
    /\ TheDebt.interestRate = ZeroInterestSentinel
    /\ \E k \in 2..MaxBack : PaidForMonths(k) /\ OwingBeforeLast(k) /\ PaidExactly(k)
    /\ frame.balanceInfo.currentBalance > 0

\* the whole calendar months from start to now, never below 0
WholeMonths(start, now) ==
    With((now.y - start.y) * 12 + (now.m - start.m) - (IF now.d < start.d THEN 1 ELSE 0),
         LAMBDA months : IF months < 0 THEN 0 ELSE months)

\* C19: for every debt the monthsElapsed returned by calculateCurrentBalance
\* is the number of whole calendar months between dateStarted and today
\* (year difference * 12 + month difference, minus 1 if today's day of month
\* is earlier than the start's, at least 0), whether or not monthlyPayment
\* is set and whether or not the simulation of the payments stopped early
MonthsElapsedReturned ==
    BalanceReturned =>
        frame.balanceInfo.monthsElapsed = WholeMonths(TheDebt.dateStarted, today)

----------------------------------------------------------------------------
(* Amortization math: calculateMonthlyPayment and calculateInterestRate.   *)
(* The code computes in doubles; here a number is an exact fraction        *)
(* [n, d] in lowest terms, d > 0.                                          *)

RECURSIVE Gcd(_, _)
Gcd(a, b) == IF b = 0 THEN a ELSE Gcd(b, a % b)

\* the absolute value of an integer
Magnitude(k) == IF k < 0 THEN 0 - k ELSE k

\* the fraction n / d (d # 0) in lowest terms
Frac(n, d) ==
    With(Gcd(Magnitude(n), Magnitude(d)), LAMBDA g :
        IF d < 0 THEN [n |-> (0 - n) \div g, d |-> (0 - d) \div g]
        ELSE [n |-> n \div g, d |-> d \div g])

\* x + y
Plus(x, y) == Frac(x.n * y.d + y.n * x.d, x.d * y.d)

\* x - y
Minus(x, y) == Frac(x.n * y.d - y.n * x.d, x.d * y.d)

\* x * y, reduced before the products are formed
Times(x, y) ==
    With(Frac(x.n, y.d), LAMBDA a :
        With(Frac(y.n, x.d), LAMBDA b : [n |-> a.n * b.n, d |-> a.d * b.d]))

\* x / y, y # 0
Over(x, y) == Times(x, Frac(y.d, y.n))

\* x < y
Less(x, y) == x.n * y.d < y.n * x.d

\* Math.abs(x)
Abs(x) == [n |-> Magnitude(x.n), d |-> x.d]

\* Math.pow(x, k) for a whole number k >= 0
RECURSIVE Pow(_, _)
Pow(x, k) == IF k = 0 THEN Frac(1, 1) ELSE Times(x, Pow(x, k - 1))

\* x < 1e-8, for x >= 0: a fraction with numerator above 21 and a
\* denominator that fits the model's integers is larger
BelowTolerance(x) == x.n = 0 \/ (x.n <= 21 /\ x.n * 100000000 < x.d)

\* x < 1e-10 and x < 1e-12: no positive fraction of the model is that small
Negligible(x) == x.n <= 0

\* L[r(1 + r)^n]/[(1 + r)^n - 1] as the code writes it:
\* loanAmount * (monthlyRate * factor) / (factor - 1)
PaymentFormula(loanAmount, monthlyRate, factor) ==
    Over(Times(loanAmount, Times(monthlyRate, factor)), Minus(factor, Frac(1, 1)))

\* lines 82-92 once the monthly rate is known
PaymentAtRate(principal, monthlyRate, durationMonths, factor) ==
    IF Negligible(Minus(factor, Frac(1, 1)))
    THEN Over(principal, Frac(durationMonths, 1))
    ELSE With(PaymentFormula(principal, monthlyRate, factor), LAMBDA monthlyPayment :
            IF monthlyPayment.n > 0 THEN monthlyPayment
            ELSE Over(principal, Frac(durationMonths, 1)))

\* lines 74-80 once the inputs are validated
PaymentAt(principal, monthlyRate, durationMonths) ==
    IF Negligible(monthlyRate) THEN Over(principal, Frac(durationMonths, 1))
    ELSE PaymentAtRate(principal, monthlyRate, durationMonths,
                       Pow(Plus(Frac(1, 1), monthlyRate), durationMonths))

calculateMonthlyPayment(principal, annualInterestRate, durationMonths) ==
    IF principal.n <= 0 \/ durationMonths <= 0 THEN Frac(0, 1)
    ELSE IF annualInterestRate.n = 0 THEN Over(principal, Frac(durationMonths, 1))
    ELSE PaymentAt(principal, Over(annualInterestRate, Frac(1200, 1)), durationMonths)

\* lines 26-28: the locals of calculateInterestRate before its loop
RateFrame(loanAmount, monthlyPayment, durationMonths) ==
    [loanAmount     |-> loanAmount,
     monthlyPayment |-> monthlyPayment,
     durationMonths |-> durationMonths,
     monthlyRate    |-> Frac(1, 100),
     i              |-> 0,
     returned       |-> Frac(0 - 1, 1)]

\* const maxIterations = 100
MaxIterations == 100

\* lines 41-46: dPdr
Derivative(loanAmount, monthlyRate, durationMonths, factor, denominator) ==
    Times(loanAmount,
          Minus(Over(Times(factor, Plus(Frac(1, 1),
                                        Times(monthlyRate, Frac(durationMonths, 1)))),
                     denominator),
                Over(Times(Times(Times(monthlyRate, factor), factor),
                           Frac(durationMonths, 1)),
                     Times(denominator, denominator))))

\* lines 52-53: the two clamps
Clamped(monthlyRate) ==
    IF monthlyRate.n < 0 THEN Frac(1, 1000)
    ELSE IF Less(Frac(1, 1), monthlyRate) THEN Frac(1, 2)
    ELSE monthlyRate

\* return monthlyRate * 12 * 100, from inside the loop or after it
RateReturn(f, monthlyRate) ==
    [pc    |-> "done",
     frame |-> [f EXCEPT !.monthlyRate = monthlyRate,
                         !.returned = Times(monthlyRate, Frac(1200, 1))]]

\* the end of a pass that has assigned monthlyRate: i++ and the loop test
RateNext(f, monthlyRate) ==
    IF f.i + 1 < MaxIterations
    THEN [pc |-> "loop", frame |-> [f EXCEPT !.monthlyRate = monthlyRate, !.i = @ + 1]]
    ELSE RateReturn([f EXCEPT !.i = @ + 1], monthlyRate)

\* lines 48-53. A dPdr that is exactly 0 is, in doubles, the rounding error
\* of the two quotients of line 44 and 45: it may be 0 (break), or so small
\* that the step leaves [0, 1] on either side; rounding says which
RateNewton(f, monthlyRate, difference, dPdr, rounding) ==
    IF dPdr.n = 0
    THEN CASE rounding = "zero"  -> RateReturn(f, monthlyRate)
           [] rounding = "below" -> RateNext(f, Frac(1, 1000))
           [] rounding = "above" -> RateNext(f, Frac(1, 2))
    ELSE IF Negligible(Abs(dPdr)) THEN RateReturn(f, monthlyRate)
    ELSE RateNext(f, Clamped(Minus(monthlyRate, Over(difference, dPdr))))

\* lines 33-50 once monthlyRate is positive and factor is known
RateTry(f, monthlyRate, factor, rounding) ==
    With(Minus(PaymentFormula(f.loanAmount, monthlyRate, factor), f.monthlyPayment),
         LAMBDA difference :
            IF BelowTolerance(Abs(difference)) THEN RateReturn(f, monthlyRate)
            ELSE RateNewton(f, monthlyRate, difference,
                            Derivative(f.loanAmount, monthlyRate, f.durationMonths,
                                       factor, Minus(factor, Frac(1, 1))),
                            rounding))

\* lines 31-33: if (monthlyRate <= 0) monthlyRate = 0.001, and the factor
RateAt(f, monthlyRate, rounding) ==
    RateTry(f, monthlyRate, Pow(Plus(Frac(1, 1), monthlyRate), f.durationMonths), rounding)

\* one pass through the for loop of calculateInterestRate
RateBody(f, rounding) ==
    RateAt(f, IF f.monthlyRate.n <= 0 THEN Frac(1, 1000) ELSE f.monthlyRate, rounding)

\* the principals, annual rates in percent and durations of the round trips:
\* loans of one payment, for which every number stays within the integers
SolverPrincipals == {Frac(100 * k, 1) : k \in 1..10}

SolverRates == {Frac(0, 1), Frac(12, 10), Frac(6, 1), Frac(12, 1), Frac(24, 1)}

SolverDurations == {1}

\* the arguments of calculateMonthlyPayment
InitSolver ==
    /\ NoStorage
    /\ today = Today
    /\ debts = <<>>
    /\ paymentStrategy = "none"
    /\ totalMonthlyBudget = Undefined
    /\ interestThreshold = DefaultThreshold
    /\ call = "calculateMonthlyPayment"
    /\ pc = "start"
    /\ \E principal \in SolverPrincipals, rate \in SolverRates,
          duration \in SolverDurations :
            frame = [principal |-> principal, annualInterestRate |-> rate,
                     durationMonths |-> duration]
    /\ projections = <<>>
    /\ monthLog = NoLog

\* calculateMonthlyPayment(principal, annualInterestRate, durationMonths)
PaymentCall ==
    /\ pc = "start" /\ call = "calculateMonthlyPayment"
    /\ pc' = "paid"
    /\ frame' = [annualInterestRate |-> frame.annualInterestRate,
                 principal          |-> frame.principal,
                 durationMonths     |-> frame.durationMonths,
                 monthlyPayment     |->
                    calculateMonthlyPayment(frame.principal, frame.annualInterestRate,
                                            frame.durationMonths)]
    /\ UNCHANGED <<inputs, stores, projections, monthLog>>

\* calculateInterestRate(principal, payment, durationMonths) up to its loop,
\* on the payment just computed; annualInterestRate is kept for comparison
RateEnter ==
    /\ pc = "paid" /\ call = "calculateMonthlyPayment"
    /\ pc' = "loop"
    /\ frame' = [annualInterestRate |-> frame.annualInterestRate,
                 solver |-> RateFrame(frame.principal, frame.monthlyPayment,
                                      frame.durationMonths)]
    /\ UNCHANGED <<inputs, stores, projections, monthLog>>

\* one pass through the loop of calculateInterestRate
RateIterate ==
    /\ pc = "loop" /\ call = "calculateMonthlyPayment"
    /\ \E rounding \in {"zero", "below", "above"} :
         With(RateBody(frame.solver, rounding), LAMBDA b :
            /\ pc' = b.pc
            /\ frame' = [frame EXCEPT !.solver = b.frame])
    /\ UNCHANGED <<inputs, stores, projections, monthLog>>

NextSolver == PaymentCall \/ RateEnter \/ RateIterate

SpecSolver == InitSolver /\ [][NextSolver]_vars

----------------------------------------------------------------------------
(* Properties of the two solvers, checked under SpecSolver.                *)

\* the rate the round trip has returned
RateRecovered == frame.solver.returned

\* C20: for principal > 0, annual rate >= 0 (0 included) and duration > 0,
\* calculateInterestRate on the payment calculateMonthlyPayment computes
\* returns the original annual rate, within a thousandth of a percent
SolverRoundTrip ==
    (call = "calculateMonthlyPayment" /\ pc = "done") =>
        Less(Abs(Minus(RateRecovered, frame.annualInterestRate)), Frac(1, 1000))

----------------------------------------------------------------------------
(* Further properties of calculateDebtProjection, checked under            *)
(* SpecProjection.                                                         *)

\* B: the manual currentAmount when it differs from totalAmount, else the
\* balance calculateCurrentBalance reconstructs
StartingBalance ==
    IF TheDebt.currentAmount # TheDebt.totalAmount THEN TheDebt.currentAmount
    ELSE calculateCurrentBalance(TheDebt, today).currentBalance

\* B * r, with the 1.2% rate read as 0
StartingInterest ==
    InterestPayment(StartingBalance,
                    IF TheDebt.interestRate = ZeroInterestSentinel THEN 0
                    ELSE TheDebt.interestRate)

\* C21: the points of calculateDebtProjection are numbered 1, 2, ..., n
\* without gaps and without a month 0, and the first point's remainingDebt
\* is B - min(p - B * r, B)
ProjectionNumbering ==
    (call = "calculateDebtProjection" /\ projections # <<>>) =>
        /\ \A k \in 1..Len(projections) : projections[k].month = k
        /\ projections[1].remainingDebt =
                StartingBalance
                - Min(TheDebt.monthlyPayment - StartingInterest, StartingBalance)

\* a projection of several months that started from a manual currentAmount
\* on which interest is charged
ProjectionNumberingSeen ==
    /\ ProjectionReturned /\ Len(projections) >= 3
    /\ TheDebt.currentAmount # TheDebt.totalAmount
    /\ StartingBalance # calculateCurrentBalance(TheDebt, today).currentBalance
    /\ StartingInterest > 0

\* C22: at every point of calculateDebtProjection, totalPaid - interestPaid
\* is the starting balance minus the balance still owed: what is counted as
\* paid is the principal repaid plus the interest charged, and the last
\* payment counts only for what was needed to clear the debt
PaidIsPrincipalPlusInterest ==
    call = "calculateDebtProjection" =>
        \A k \in 1..Len(projections) :
            projections[k].totalPaid - projections[k].interestPaid
                = StartingBalance - projections[k].remainingDebt

----------------------------------------------------------------------------
(* Further properties of the strategy simulators, checked under SpecPortfolio *)

\* what clears the debt of a step: what it owes plus the month's interest
ClearingAmount(step) == step.balanceBefore + step.interestPayment

\* C23: in every month simulated under a named strategy in which the budget
\* is at least the sum of the stated payments of the month's active debts,
\* every active debt other than the focused one receives its stated monthly
\* payment, or the smaller amount that clears it, however much the focused
\* debt owes
MinimumsArePaid ==
    (StrategyMonth /\ monthLog.totalMonthlyPayment >= StatedPayments(Steps)) =>
        \A k \in 2..Len(Steps) :
            Steps[k].paid = Min(Steps[k].monthlyPayment, ClearingAmount(Steps[k]))

----------------------------------------------------------------------------
(* Further properties of calculateTotalDebtProjection, checked under       *)
(* SpecPortfolio                                                           *)

\* what the debt owes now: its currentAmount when it differs from
\* totalAmount, the reconstructed balance otherwise
BalanceOwedNow(debt) ==
    ActualCurrentBalance(debt, calculateCurrentBalance(debt, today).currentBalance)

\* what the debt still owes after month monthly payments: what it owes now
\* when it has no payment, the balance the projection loop is left with after
\* month passes otherwise (a pass that cannot pay leaves the balance)
StillOwed(debt, month) ==
    IF ~Truthy(debt.monthlyPayment) THEN BalanceOwedNow(debt)
    ELSE Max(0, ProjectionRun(ProjectionStart(debt, today), month).frame.remainingBalance)

\* what the counted debts still owe after month monthly payments
OwedAfter(month) ==
    SumField([i \in 1..Len(TrackedInputs) |->
                 [owed |-> StillOwed(TrackedInputs[i], month)]], "owed")

\* C24: the remainingDebt of calculateTotalDebtProjection at month m is the
\* sum, over the counted debts, of what each still owes after m monthly
\* payments: a debt adds 0 only when it is paid off, and a last point with
\* remainingDebt 0 means that every counted debt is paid off, also a debt
\* without monthlyPayment or with a payment that does not cover its interest
AggregateIsWhatIsOwed ==
    (call = "calculateTotalDebtProjection" /\ projections # <<>>) =>
        \A k \in 1..Len(projections) : projections[k].remainingDebt = OwedAfter(k)

----------------------------------------------------------------------------
(* calculateSnowballProjection against calculateDebtProjection, checked    *)
(* under SpecProjection                                                     *)

\* calculateSnowballProjection([debt], debt.monthlyPayment, 'snowball')
\* after as many months as the running projection has points
AloneInCohort ==
    SnowballRun(SnowballStart(<<TheDebt>>, today, TheDebt.monthlyPayment, "snowball",
                              DefaultThreshold),
                today, Len(projections))

\* the remainingDebt of the points, in order
RemainingDebts(points) == [k \in 1..Len(points) |-> points[k].remainingDebt]

\* C25: the fixed-cohort simulator starts a debt from the balance
\* calculateDebtProjection starts from (the currentAmount when it differs
\* from totalAmount, the reconstructed balance otherwise), so that for a
\* single debt with the budget equal to its monthlyPayment the two report
\* the same remainingDebt in every month
CohortOfOneIsProjection ==
    (call = "calculateDebtProjection" /\ pc # "start") =>
        /\ \A i \in 1..Len(DebtBalances(<<TheDebt>>, today)) :
              DebtBalances(<<TheDebt>>, today)[i].currentBalance = StartingBalance
        /\ RemainingDebts(AloneInCohort.projections) = RemainingDebts(projections)

----------------------------------------------------------------------------
(* The dates of the points, checked under SpecPortfolio *)

\* the point numbered month of the i-th counted debt's own projection, when
\* it has one, is dated date
ProjectionDatesIt(i, month, date) ==
    With(calculateDebtProjection(TrackedInputs[i], today), LAMBDA projection :
        month <= Len(projection) => projection[month].date = date)

\* C26: the month numbers of the three producers are aligned: the point
\* numbered m of calculateTotalDebtProjection and of
\* calculateSnowballProjection carries the date that calculateDebtProjection
\* gives its point numbered m, the same number of months after today
MonthsAligned ==
    (/\ call \in {"calculateTotalDebtProjection", "calculateSnowballProjection"}
     /\ projections # <<>>)
    => \A k \in 1..Len(projections) : \A i \in 1..Len(TrackedInputs) :
            ProjectionDatesIt(i, k, projections[k].date)

----------------------------------------------------------------------------
(* The figures of the two strategy simulations month over month, checked   *)
(* under SpecPortfolio                                                     *)

\* a simulation under a named strategy is in its loop or has returned
StrategyCall ==
    /\ call \in {"calculateSnowballProjection", "calculateCompleteDebtTimeline"}
    /\ paymentStrategy \in Strategies
    /\ pc # "start"

\* the balance fixed-cohort mode holds for the debt id in the frame f: a debt
\* removed from remainingDebts has been paid off
CohortBalance(f, id) ==
    SumField(SelectSeq(f.remainingDebts, LAMBDA d : d.id = id), "currentBalance")

\* from f to g no debt of fixed-cohort mode owes more
CohortShrinks(f, g) ==
    \A i \in 1..Len(f.remainingDebts) :
        CohortBalance(g, f.remainingDebts[i].id) <= f.remainingDebts[i].currentBalance

\* from f to g no debt state of staggered mode owes more
StatesShrink(f, g) ==
    \A i \in 1..Len(f.debtStates) :
        g.debtStates[i].remainingBalance <= f.debtStates[i].remainingBalance

\* a pass through the loop of a strategy simulation raises no balance
MonthRaisesNoBalance ==
    (StrategyCall /\ pc = "loop") =>
        IF call = "calculateSnowballProjection" THEN CohortShrinks(frame, frame')
        ELSE StatesShrink(frame, frame')

\* the points emitted before the last one add up to base
PaidBefore ==
    IF Len(projections) = 1 THEN [totalPaid |-> 0, interestPaid |-> 0]
    ELSE [totalPaid    |-> projections[Len(projections) - 1].totalPaid,
          interestPaid |-> projections[Len(projections) - 1].interestPaid]

\* the series so far: remainingDebt does not rise, totalPaid and interestPaid
\* do not fall, and the last point adds the month's payments and interest
SeriesIsCumulative ==
    (StrategyCall /\ projections # <<>>) =>
        /\ \A k \in 1..(Len(projections) - 1) :
              /\ projections[k + 1].remainingDebt <= projections[k].remainingDebt
              /\ projections[k + 1].totalPaid >= projections[k].totalPaid
              /\ projections[k + 1].interestPaid >= projections[k].interestPaid
        /\ Last.totalPaid = PaidBefore.totalPaid + SumField(Steps, "paid")
        /\ Last.interestPaid =
              PaidBefore.interestPaid
                  + SumField(SelectSeq(Steps, LAMBDA s : s.paid > 0), "interestPayment")

\* C27: in both strategy modes no tracked debt's balance rises from one month
\* to the next, the remainingDebt of the points never rises, their totalPaid
\* and interestPaid never fall, and each point's totalPaid is the sum of all
\* payments made so far
StrategyFiguresMonotonic == []SeriesIsCumulative /\ [][MonthRaisesNoBalance]_vars

\* a later month of a strategy simulation in which two debts were paid, one
\* of them with interest, after a month in which something was paid
StrategyFiguresSeen ==
    /\ StrategyCall /\ StrategyMonth
    /\ Len(projections) >= 3
    /\ PaidBefore.totalPaid > 0
    /\ Last.totalPaid > PaidBefore.totalPaid
    /\ Last.interestPaid > PaidBefore.interestPaid
    /\ Last.remainingDebt < projections[Len(projections) - 1].remainingDebt
    /\ Len(SelectSeq(Steps, LAMBDA s : s.paid > 0)) >= 2

----------------------------------------------------------------------------
(* utils/storage.ts and utils/firebaseStorage.ts: local storage, the       *)
(* user's Firestore collections and the asynchronous calls that write them *)

\* the lists of AppState
Kinds == {"debts", "incomeSources", "recurringExpenses"}

\* getUserDebtsCollection, getUserIncomesCollection, getUserExpensesCollection
Collection(kind) ==
    CASE kind = "debts" -> "debts"
      [] kind = "incomeSources" -> "incomes"
      [] kind = "recurringExpenses" -> "expenses"

\* a Debt, IncomeSource or RecurringExpense as the forms build it: its id, its
\* content (rev) and, for a Debt, dateStarted as a Date
NewItem(kind, id, rev) ==
    [id |-> id, rev |-> rev, dateStarted |-> IF kind = "debts" THEN "Date" ELSE "none"]

\* JSON.stringify of one item: a Date becomes its ISO string
ItemToJSON(item) ==
    [item EXCEPT !.dateStarted = IF @ = "Date" THEN "string" ELSE @]

\* JSON.stringify(state)
Stringify(state) ==
    [kind \in Kinds |-> [i \in 1..Len(state[kind]) |-> ItemToJSON(state[kind][i])]]

\* { ...debt, dateStarted: new Date(debt.dateStarted) }
ReviveDebt(item) == [item EXCEPT !.dateStarted = "Date"]

\* loadFromStorage(), on what is stored now: the debts get their dates back,
\* the other two lists are taken as parsed
loadFromStorage ==
    [debts             |-> [i \in 1..Len(localStorage.debts) |->
                                ReviveDebt(localStorage.debts[i])],
     incomeSources     |-> localStorage.incomeSources,
     recurringExpenses |-> localStorage.recurringExpenses]

\* what Firestore keeps of an item: a Date becomes a Timestamp
ToDocument(item) ==
    [item EXCEPT !.dateStarted = IF @ = "Date" THEN "Timestamp" ELSE @]

\* the documents of the collection coll after setDoc(doc(coll, item.id), item)
SetDoc(docs, item) == {d \in docs : d.id # item.id} \cup {ToDocument(item)}

\* the documents after deleteDoc(doc(coll, id))
DeleteDoc(docs, id) == {d \in docs : d.id # id}

\* updateDoc fails when the document does not exist
DocExists(docs, id) == \E d \in docs : d.id = id

\* currentState.debts.findIndex(d => d.id === debtId), 0 for -1
FindIndex(list, id) ==
    IF \E i \in 1..Len(list) : list[i].id = id
    THEN CHOOSE i \in 1..Len(list) :
            /\ list[i].id = id
            /\ \A j \in 1..(i - 1) : list[j].id # id
    ELSE 0

\* the list after the call's modification: push, replace at index, filter
Modified(fn, list, item) ==
    CASE fn = "add" -> Append(list, item)
      [] fn = "update" -> [list EXCEPT ![FindIndex(list, item.id)] = item]
      [] fn = "delete" -> SelectSeq(list, LAMBDA d : d.id # item.id)

\* updateDebt and its counterparts return without writing when the id is unknown
NothingToWrite(fn, list, item) == fn = "update" /\ FindIndex(list, item.id) = 0

\* a call suspends between loadFromStorage and saveToStorage
AwaitsBeforeSaveAlways(fn) == TRUE

\* lines 51-53, 64-68, 80-82: no await between loadFromStorage and saveToStorage
AwaitsBeforeSave(fn) == FALSE

\* the remote call is made whoever is signed in
SyncAlways(user) == TRUE

\* if (auth.currentUser)
ShouldSync(user) == user

\* the calls of storage.ts started so far
Calls == SelectSeq(tasks, LAMBDA t : t.fn # "initializeData")

\* the sign-ins so far: each runs the effect initializeData
SignIns == SelectSeq(tasks, LAMBDA t : t.fn = "initializeData")

\* the largest number of storage calls of a behaviour
MaxCalls == 2

\* the largest number of sign-ins of a behaviour
MaxSignIns == 2

\* the calls of a behaviour write one and the same list
SameCollection(kind) == \A i \in 1..Len(Calls) : Calls[i].kind = kind

\* the ids a call can name: the ids given out so far, and one never given out
KnownIds == {0} \cup {Calls[i].item.id : i \in {j \in 1..Len(Calls) : Calls[j].fn = "add"}}

\* a started task
Task(fn, kind, item, at, state) ==
    [fn |-> fn, kind |-> kind, item |-> item, pc |-> at, currentState |-> state,
     wrote |-> FALSE, issued |-> FALSE, outcome |-> "pending", failed |-> FALSE, next |-> 1]

\* addDebt(debt), updateDebt(id, debt), deleteDebt(id) or a counterpart is
\* called: it runs up to its saveToStorage, or returns when there is nothing
\* to write
StartCall(fn, kind, item) ==
    /\ thread = 0
    /\ Len(Calls) < MaxCalls
    /\ SameCollection(kind)
    /\ IF NothingToWrite(fn, loadFromStorage[kind], item)
       THEN /\ tasks' = Append(tasks, [Task(fn, kind, item, "done", loadFromStorage)
                                          EXCEPT !.outcome = "resolved"])
            /\ thread' = 0
       ELSE /\ tasks' = Append(tasks, Task(fn, kind, item, "save", loadFromStorage))
            /\ thread' = IF AwaitsBeforeSave(fn) THEN 0 ELSE Len(tasks) + 1
    /\ UNCHANGED <<core, localStorage, firestore, currentUser>>

\* one of the calls the forms and lists make: a new item under a fresh id, an
\* edited copy of an item, or the removal of an item
Call ==
    \E kind \in Kinds :
        \/ StartCall("add", kind, NewItem(kind, Len(tasks) + 1, 1))
        \/ \E id \in KnownIds :
              \/ StartCall("update", kind, NewItem(kind, id, Len(tasks) + 1))
              \/ StartCall("delete", kind, NewItem(kind, id, 0))

\* saveToStorage(currentState) of the task t
Save(t) ==
    /\ tasks[t].pc = "save"
    /\ thread \in {0, t}
    /\ localStorage' =
          Stringify([tasks[t].currentState EXCEPT ![tasks[t].kind] =
                          Modified(tasks[t].fn, @, tasks[t].item)])
    /\ tasks' = [tasks EXCEPT ![t].pc = "sync", ![t].wrote = TRUE,
                              ![t].currentState = EmptyState]
    /\ thread' = t
    /\ UNCHANGED <<core, firestore, currentUser>>

\* if (auth.currentUser) { try { await ...Firestore(uid, ...) } ... } of the task t
Sync(t) ==
    /\ tasks[t].pc = "sync"
    /\ thread = t
    /\ tasks' = IF ShouldSync(currentUser)
                THEN [tasks EXCEPT ![t].pc = "await", ![t].issued = TRUE]
                ELSE [tasks EXCEPT ![t].pc = "done", ![t].outcome = "resolved"]
    /\ thread' = 0
    /\ UNCHANGED <<core, localStorage, firestore, currentUser>>

\* the collection after the remote call of the task t: setDoc, updateDoc, deleteDoc
Written(t, docs) ==
    CASE tasks[t].fn \in {"add", "update"} -> SetDoc(docs, tasks[t].item)
      [] tasks[t].fn = "delete" -> DeleteDoc(docs, tasks[t].item.id)

\* the remote call of the task t can succeed
CanSucceed(t) ==
    tasks[t].fn = "update" => DocExists(firestore[Collection(tasks[t].kind)], tasks[t].item.id)

\* the remote call of the task t settles: written, or failed, thrown by
\* firebaseStorage.ts and logged by the catch of storage.ts; the call resolves
Settle(t, ok) ==
    /\ tasks[t].pc = "await"
    /\ tasks[t].fn # "initializeData"
    /\ thread = 0
    /\ ok => CanSucceed(t)
    /\ firestore' = IF ok THEN [firestore EXCEPT ![Collection(tasks[t].kind)] = Written(t, @)]
                    ELSE firestore
    /\ tasks' = [tasks EXCEPT ![t].pc = "done", ![t].outcome = "resolved",
                              ![t].failed = ~ok]
    /\ UNCHANGED <<core, localStorage, currentUser, thread>>

----------------------------------------------------------------------------
(* App.tsx: signing in and out, and the effect initializeData *)

\* the three lists are empty, line 111
NothingLocal(state) == \A kind \in Kinds : Len(state[kind]) = 0

\* the setDoc calls of saveToFirestore(userId, state): list and position
BatchOf(state) == UNION {{<<kind, i>> : i \in 1..Len(state[kind])} : kind \in Kinds}

\* the collection of the list kind after the setDoc calls written of the batch
AfterBatch(state, written, kind, docs) ==
    {d \in docs : \A w \in written : w[1] = kind => state[kind][w[2]].id # d.id}
        \cup {ToDocument(state[w[1]][w[2]]) : w \in {v \in written : v[1] = kind}}

\* the user signs in (or the stored session is restored): the effect of
\* App.tsx runs initializeData, which awaits the getDocs of
\* migrateLocalStorageToFirestore
SignIn ==
    /\ ~currentUser
    /\ thread = 0
    /\ Len(SignIns) < MaxSignIns
    /\ currentUser' = TRUE
    /\ tasks' = Append(tasks, Task("initializeData", "debts", NewItem("debts", 0, 0),
                                   "getDocs", EmptyState))
    /\ UNCHANGED <<core, localStorage, firestore, thread>>

\* the user signs out; the effect runs loadData on local storage alone and
\* writes nothing
SignOut ==
    /\ currentUser
    /\ thread = 0
    /\ currentUser' = FALSE
    /\ UNCHANGED <<core, localStorage, firestore, tasks, thread>>

\* loadData() of the task t up to its await loadFromFirestore; failed: the
\* migration has thrown and the catch of initializeData has logged it
EntersLoadData(t, failed) ==
    [tasks EXCEPT ![t].pc = "loadFromFirestore", ![t].currentState = loadFromStorage,
                  ![t].failed = failed]

\* the getDocs of migrateLocalStorageToFirestore settles, lines 101-117: no
\* migration when the user has debts in Firestore, when nothing is stored
\* locally or when getDocs failed; otherwise saveToFirestore issues its batch
MigrateRead(t, ok) ==
    /\ tasks[t].pc = "getDocs"
    /\ thread = 0
    /\ tasks' = IF ok /\ firestore.debts = {} /\ ~NothingLocal(loadFromStorage)
                THEN [tasks EXCEPT ![t].pc = "saving", ![t].currentState = loadFromStorage,
                                   ![t].issued = TRUE]
                ELSE EntersLoadData(t, ~ok)
    /\ UNCHANGED <<core, localStorage, firestore, currentUser, thread>>

\* Promise.all(batch) of saveToFirestore settles, the setDoc calls written
\* having succeeded: a failure is thrown up to initializeData and logged, then
\* loadData runs
MigrateSaved(t, written) ==
    /\ tasks[t].pc = "saving"
    /\ thread = 0
    /\ firestore' = [debts    |-> AfterBatch(tasks[t].currentState, written, "debts",
                                             firestore.debts),
                     incomes  |-> AfterBatch(tasks[t].currentState, written, "incomeSources",
                                             firestore.incomes),
                     expenses |-> AfterBatch(tasks[t].currentState, written,
                                             "recurringExpenses", firestore.expenses)]
    /\ tasks' = EntersLoadData(t, written # BatchOf(tasks[t].currentState))
    /\ UNCHANGED <<core, localStorage, currentUser, thread>>

\* loadFromFirestore settles in loadData, lines 44-62: when Firestore has no
\* expenses and local storage had some, they are added one after the other
LoadSettles(t, ok) ==
    /\ tasks[t].pc = "loadFromFirestore"
    /\ thread = 0
    /\ tasks' = IF ~ok
                THEN [tasks EXCEPT ![t].pc = "done", ![t].outcome = "resolved",
                                   ![t].failed = TRUE, ![t].currentState = EmptyState]
                ELSE IF firestore.expenses = {}
                        /\ Len(tasks[t].currentState.recurringExpenses) > 0
                THEN [tasks EXCEPT ![t].pc = "addExpense", ![t].next = 1]
                ELSE [tasks EXCEPT ![t].pc = "done", ![t].outcome = "resolved",
                                   ![t].currentState = EmptyState]
    /\ UNCHANGED <<core, localStorage, firestore, currentUser, thread>>

\* one await addExpenseToFirestore of the loop of lines 56-58 settles; a
\* failure ends the loop in the catch of line 60
ExpenseAdded(t, ok) ==
    /\ tasks[t].pc = "addExpense"
    /\ thread = 0
    /\ firestore' = IF ok
                    THEN [firestore EXCEPT !.expenses =
                            SetDoc(@, tasks[t].currentState.recurringExpenses[tasks[t].next])]
                    ELSE firestore
    /\ tasks' = IF ok /\ tasks[t].next < Len(tasks[t].currentState.recurringExpenses)
                THEN [tasks EXCEPT ![t].next = @ + 1]
                ELSE [tasks EXCEPT ![t].pc = "done", ![t].outcome = "resolved",
                                   ![t].failed = @ \/ ~ok, ![t].next = 1,
                                   ![t].currentState = EmptyState]
    /\ UNCHANGED <<core, localStorage, currentUser, thread>>

\* the application starts with nothing stored and nobody signed in
InitStorage ==
    /\ NoStorage
    /\ debts = <<>>
    /\ today = Today
    /\ paymentStrategy = "none"
    /\ totalMonthlyBudget = Undefined
    /\ interestThreshold = DefaultThreshold
    /\ call = "storage"
    /\ pc = "start"
    /\ frame = NoFrame
    /\ projections = <<>>
    /\ monthLog = NoLog

NextStorage ==
    \/ Call
    \/ SignIn
    \/ SignOut
    \/ \E t \in 1..Len(tasks) :
          \/ Save(t)
          \/ Sync(t)
          \/ \E ok \in BOOLEAN :
                \/ Settle(t, ok)
                \/ MigrateRead(t, ok)
                \/ LoadSettles(t, ok)
                \/ ExpenseAdded(t, ok)
          \/ \E written \in SUBSET BatchOf(tasks[t].currentState) : MigrateSaved(t, written)

SpecStorage == InitStorage /\ [][NextStorage]_vars

----------------------------------------------------------------------------
(* Properties of the stores, checked under SpecStorage *)

\* the debts of a list or of a collection, by id and content
DebtsOf(items) == {[id |-> d.id, rev |-> d.rev] : d \in items}

\* the items of a list
Range(list) == {list[i] : i \in 1..Len(list)}

\* every call has returned, no remote call has failed, a user is signed in
\* and the last thing started was that sign-in's initializeData
SettledAfterSignIn ==
    /\ tasks # <<>>
    /\ \A t \in 1..Len(tasks) : tasks[t].pc = "done" /\ ~tasks[t].failed
    /\ currentUser
    /\ tasks[Len(tasks)].fn = "initializeData"

\* C28: after any sequence of addDebt, updateDebt and deleteDebt calls, some
\* made signed out and some signed in, followed by the sign-in initialisation,
\* every remote call having succeeded and none pending, the debts in the
\* user's Firestore collection are the debts in local storage
StoresConverge ==
    SettledAfterSignIn => DebtsOf(firestore.debts) = DebtsOf(Range(localStorage.debts))

\* the tasks that are calls of storage.ts
IsCall(t) == tasks[t].fn # "initializeData"

\* the step issues the remote call of the task t
IssuesRemote(t) == ~tasks[t].issued /\ tasks'[t].issued

\* the remote call of the task t fails in the step
RemoteFails(t) == ~tasks[t].failed /\ tasks'[t].failed

\* the step starts an update of an item that local storage does not hold
StartsUnknownUpdate ==
    /\ Len(tasks') = Len(tasks) + 1
    /\ tasks'[Len(tasks')].fn = "update"
    /\ FindIndex(loadFromStorage[tasks'[Len(tasks')].kind], tasks'[Len(tasks')].item.id) = 0

\* what a step of a call of storage.ts keeps to
LocalFirstStep ==
    /\ \A t \in 1..Len(tasks) :
          IsCall(t) =>
              /\ IssuesRemote(t) => tasks[t].wrote /\ currentUser
              /\ RemoteFails(t) => tasks'[t].outcome = "resolved" /\ localStorage' = localStorage
    /\ StartsUnknownUpdate =>
          /\ localStorage' = localStorage
          /\ tasks'[Len(tasks')].pc = "done"
          /\ tasks'[Len(tasks')].outcome = "resolved"

\* a call that has issued its remote call has written local storage before,
\* a call that returned without writing has issued none, and no call rejects
LocalFirstState ==
    \A t \in 1..Len(tasks) :
        IsCall(t) =>
            /\ tasks[t].issued => tasks[t].wrote
            /\ tasks[t].pc = "done" => tasks[t].outcome = "resolved"

RECURSIVE Applied(_, _)
Applied(n, kind) ==
    IF n = 0 THEN <<>>
    ELSE IF Calls[n].wrote /\ Calls[n].kind = kind
    THEN Modified(Calls[n].fn, Applied(n - 1, kind), Calls[n].item)
    ELSE Applied(n - 1, kind)

\* local storage holds the effect of every call that has written it
LocalReflectsCalls == \A kind \in Kinds : loadFromStorage[kind] = Applied(Len(Calls), kind)

\* a call that writes local storage writes over what it has read
WritesOverWhatItRead ==
    \A t \in 1..Len(tasks) :
        (IsCall(t) /\ tasks[t].pc = "save" /\ tasks'[t].pc = "sync")
            => tasks[t].currentState = loadFromStorage

\* C30: under any interleaving of concurrently started addDebt, updateDebt and
\* deleteDebt calls, each suspending only at its remote call, a call's read,
\* modification and write of local storage have no other call's write in
\* between, and the local list reflects the effect of every call
NoLostUpdate == []LocalReflectsCalls /\ [][WritesOverWhatItRead]_vars

\* two calls on the debts are suspended at their remote calls at the same
\* time, and local storage holds what both have written
NoLostUpdateSeen ==
    /\ Len(Calls) = 2
    /\ \A i \in 1..2 : Calls[i].kind = "debts" /\ Calls[i].pc = "await" /\ Calls[i].wrote
    /\ Calls[1].fn = "add" /\ Calls[2].fn = "add"
    /\ Len(localStorage.debts) = 2

====
